---- MODULE Spec2Model ----
(***************************************************************************)
(* A model of the observation-scraper climate bulletin engine:             *)
(*   parsers/cli.py        CLIParser (classification, extraction, parsing) *)
(*   models/climate_data.py CLIData and KafkaBeat (pydantic models)        *)
(*   cli_operations.py     get_climate_data, format_kafka_beats            *)
(*   scrapers/cli.py       CLIScraper (build_url, fetch_report)            *)
(*                                                                         *)
(* Report text is modelled as a sequence of lexical tokens.  Adjacent      *)
(* tokens are separated by white space; the only place where the code      *)
(* depends on the exact white space is after the temperature header        *)
(* (the literals "TEMPERATURE (F)\n YESTERDAY" and "TEMPERATURE (F)\n      *)
(* TODAY"), so the header comes in two tokens: one followed by exactly a   *)
(* newline and one space, one followed by any other white space.           *)
(* Decimal numbers are held in hundredths (0.25 is 25, 6.6 is 660).        *)
(***************************************************************************)
EXTENDS Integers, Sequences, FiniteSets, TLC

VARIABLES
    report,          \* report_content: the text given to the parser
    station_id,      \* station_id argument of parse_report
    pc,              \* position inside parse_report / format_kafka_beats
    steps,           \* the parse_report steps executed so far, in order
    valid,           \* result of validate_report_type (FALSE before the call)
    rule,            \* which return of validate_report_type decided (0 before the call)
    report_date_str, \* local of parse_report
    report_date_obj, \* local of parse_report
    temp_data,       \* local of parse_report: result of _parse_temperature
    kwargs,          \* keyword arguments handed to the CLIData constructor
    cli_data,        \* the CLIData object (None before construction)
    error,           \* the exception that left the call, "" when none
    beats,           \* list returned by format_kafka_beats
    cli_config,      \* CLIScraper.cli_config
    response,        \* what requests.get and raise_for_status did
    html,            \* html_content: the text fetch_report returned
    requests,        \* number of calls of requests.get so far
    exc,             \* the exception that left fetch_report (type "" when none)
    first,           \* outcome of the earlier invocation, when there was one
    topic,           \* topic argument of publish_beats_to_kafka
    producer,        \* the ObservationProducer and its KafkaProducer
    count,           \* local of publish_beats_to_kafka
    scheduler        \* the schedule library's clock and the job registered by start()

\* The state of the scraper
fetch_vars == <<cli_config, response, html, requests, exc>>

\* The state of publish_beats_to_kafka
publish_vars == <<topic, producer, count>>

vars == <<report, station_id, pc, steps, valid, rule, report_date_str,
          report_date_obj, temp_data, kwargs, cli_data, error, beats,
          fetch_vars, first, publish_vars, scheduler>>

-----------------------------------------------------------------------------
(* Tokens *)

W(s) == [t |-> "w", s |-> s, n |-> 0, y |-> 0]
I(n) == [t |-> "int", s |-> "", n |-> n, y |-> 0]
D(h) == [t |-> "dec", s |-> "", n |-> h, y |-> 0]
Dots == [t |-> "dots", s |-> "", n |-> 0, y |-> 0]
Summary(month, day, year) == [t |-> "sum", s |-> month, n |-> day, y |-> year]

HDR_NL == "TEMPERATURE (F)\n "
HDR_WS == "TEMPERATURE (F)"

\* Python's `lit in report_content` for the literals the code searches for:
\* the words of the model's vocabulary that hold the literal as a substring.
WordsHolding(lit) ==
    CASE lit = "YESTERDAY" -> {"YESTERDAY"}
      [] lit = "TODAY" -> {"TODAY", "VALID TODAY", "VALID TODAY AS OF"}
      [] lit = "VALID TODAY" -> {"VALID TODAY", "VALID TODAY AS OF"}
      [] lit = "VALID TODAY AS OF" -> {"VALID TODAY AS OF"}
      [] lit = "TEMPERATURE (F)" -> {HDR_NL, HDR_WS}
      [] OTHER -> {lit}

Holds(tok, lit) == tok.t = "w" /\ tok.s \in WordsHolding(lit)

Contains(text, lit) == \E i \in 1..Len(text) : Holds(text[i], lit)

\* "TEMPERATURE (F)\n <marker>" in report_content
HeaderThen(text, marker) ==
    \E i \in 1..(Len(text) - 1) :
        /\ text[i] = W(HDR_NL)
        /\ text[i + 1].t = "w"
        /\ text[i + 1].s = marker

\* re.search(r"TEMPERATURE \(F\).*?<marker>", report_content, re.DOTALL)
HeaderBefore(text, marker) ==
    \E i \in 1..Len(text) : \E j \in (i + 1)..Len(text) :
        Holds(text[i], "TEMPERATURE (F)") /\ Holds(text[j], marker)

-----------------------------------------------------------------------------
(* CLIParser.validate_report_type *)

\* Mutant of Classification: the validity line is tested before the two
\* literals of the temperature section.
Classification_ValidityFirst(text) ==
    LET has_yesterday == HeaderBefore(text, "YESTERDAY")
        has_today == HeaderBefore(text, "TODAY")
    IN  IF Contains(text, "VALID TODAY AS OF") THEN [rule |-> 3, result |-> FALSE]
        ELSE IF HeaderThen(text, "YESTERDAY") THEN [rule |-> 1, result |-> TRUE]
        ELSE IF HeaderThen(text, "TODAY") THEN [rule |-> 2, result |-> FALSE]
        ELSE IF has_yesterday /\ ~has_today THEN [rule |-> 4, result |-> TRUE]
        ELSE IF has_today /\ ~has_yesterday THEN [rule |-> 4, result |-> FALSE]
        ELSE [rule |-> 5,
              result |-> Contains(text, "YESTERDAY") /\ ~Contains(text, "VALID TODAY")]

\* Mutant of Classification: the TODAY literal is tested before the
\* YESTERDAY literal.
Classification_TodayFirst(text) ==
    LET has_yesterday == HeaderBefore(text, "YESTERDAY")
        has_today == HeaderBefore(text, "TODAY")
    IN  IF HeaderThen(text, "TODAY") THEN [rule |-> 2, result |-> FALSE]
        ELSE IF HeaderThen(text, "YESTERDAY") THEN [rule |-> 1, result |-> TRUE]
        ELSE IF Contains(text, "VALID TODAY AS OF") THEN [rule |-> 3, result |-> FALSE]
        ELSE IF has_yesterday /\ ~has_today THEN [rule |-> 4, result |-> TRUE]
        ELSE IF has_today /\ ~has_yesterday THEN [rule |-> 4, result |-> FALSE]
        ELSE [rule |-> 5,
              result |-> Contains(text, "YESTERDAY") /\ ~Contains(text, "VALID TODAY")]

\* Mutant of Classification: the last return tests "YESTERDAY" only.
Classification_YesterdayOnly(text) ==
    LET has_yesterday == HeaderBefore(text, "YESTERDAY")
        has_today == HeaderBefore(text, "TODAY")
    IN  IF HeaderThen(text, "YESTERDAY") THEN [rule |-> 1, result |-> TRUE]
        ELSE IF HeaderThen(text, "TODAY") THEN [rule |-> 2, result |-> FALSE]
        ELSE IF Contains(text, "VALID TODAY AS OF") THEN [rule |-> 3, result |-> FALSE]
        ELSE IF has_yesterday /\ ~has_today THEN [rule |-> 4, result |-> TRUE]
        ELSE IF has_today /\ ~has_yesterday THEN [rule |-> 4, result |-> FALSE]
        ELSE [rule |-> 5, result |-> Contains(text, "YESTERDAY")]

\* [rule, result]: the return statement that decides, numbered as the rules
\* of the classifier (1: line 48, 2: line 52, 3: line 56, 4: lines 67 and 70,
\* 5: line 73), and the value it returns.
Classification(text) ==
    LET has_yesterday == HeaderBefore(text, "YESTERDAY")
        has_today == HeaderBefore(text, "TODAY")
    IN  IF HeaderThen(text, "YESTERDAY") THEN [rule |-> 1, result |-> TRUE]
        ELSE IF HeaderThen(text, "TODAY") THEN [rule |-> 2, result |-> FALSE]
        ELSE IF Contains(text, "VALID TODAY AS OF") THEN [rule |-> 3, result |-> FALSE]
        ELSE IF has_yesterday /\ ~has_today THEN [rule |-> 4, result |-> TRUE]
        ELSE IF has_today /\ ~has_yesterday THEN [rule |-> 4, result |-> FALSE]
        ELSE [rule |-> 5,
              result |-> Contains(text, "YESTERDAY") /\ ~Contains(text, "VALID TODAY")]

validate_report_type(text) == Classification(text).result

-----------------------------------------------------------------------------
(* Optional values, datetimes and formatted strings *)

NoneInt == [some |-> FALSE, v |-> 0]
NoneStr == [some |-> FALSE, v |-> ""]
NoneText == [some |-> FALSE, v |-> <<>>]
Some(x) == [some |-> TRUE, v |-> x]

\* datetime(year, month, day, hour, minute, second)
DT(y, mo, d, h, mi, s) ==
    [year |-> y, month |-> mo, day |-> d, hour |-> h, minute |-> mi, second |-> s]
NoneDT == [some |-> FALSE, v |-> DT(0, 0, 0, 0, 0, 0)]

\* The datetime constructor raises ValueError outside these ranges.
DatetimeOK(h, mi) == h \in 0..23 /\ mi \in 0..59

Digit(d) == <<"0", "1", "2", "3", "4", "5", "6", "7", "8", "9">>[d + 1]

RECURSIVE Digits(_)
\* str(n) for n >= 0: the characters of the decimal numeral
Digits(n) == IF n < 10 THEN <<Digit(n)>> ELSE Digits(n \div 10) \o <<Digit(n % 10)>>

\* f"{n:02d}" and strftime's two-digit fields
Pad2(n) == IF n < 10 THEN <<"0", Digit(n)>> ELSE Digits(n)

\* Mutant of strftime: the fields are written without zero padding.
strftime_NoPad(dt) ==
    Digits(dt.year) \o <<"-">> \o Digits(dt.month) \o <<"-">> \o Digits(dt.day)
      \o <<"T">> \o Digits(dt.hour) \o <<":">> \o Digits(dt.minute)
      \o <<":">> \o Digits(dt.second) \o <<"Z">>

\* strftime("%Y-%m-%dT%H:%M:%SZ")
strftime(dt) ==
    Digits(dt.year) \o <<"-">> \o Pad2(dt.month) \o <<"-">> \o Pad2(dt.day)
      \o <<"T">> \o Pad2(dt.hour) \o <<":">> \o Pad2(dt.minute)
      \o <<":">> \o Pad2(dt.second) \o <<"Z">>

Min(S) == CHOOSE x \in S : \A y \in S : x <= y

-----------------------------------------------------------------------------
(* CLIParser.extract_report_date *)

MonthNames == <<"JANUARY", "FEBRUARY", "MARCH", "APRIL", "MAY", "JUNE", "JULY",
                "AUGUST", "SEPTEMBER", "OCTOBER", "NOVEMBER", "DECEMBER">>

MonthNumber(name) == CHOOSE i \in 1..12 : MonthNames[i] = name

IsLeap(y) == (y % 4 = 0 /\ y % 100 # 0) \/ y % 400 = 0

DaysIn(mo, y) ==
    IF mo = 2 THEN (IF IsLeap(y) THEN 29 ELSE 28)
    ELSE IF mo \in {4, 6, 9, 11} THEN 30 ELSE 31

\* datetime.strptime(date_str, "%B %d %Y") succeeds: a full month name, a
\* four-digit year and a day of that month; otherwise it raises ValueError.
StrptimeOK(tok) ==
    /\ \E i \in 1..12 : MonthNames[i] = tok.s
    /\ tok.y \in 1000..9999
    /\ tok.n \in 1..DaysIn(MonthNumber(tok.s), tok.y)

\* [raised, date_str, date_obj]: the first summary line of the text decides;
\* no summary line, or one strptime rejects, raises ValueError.
extract_report_date(text) ==
    LET S == {i \in 1..Len(text) : text[i].t = "sum"}
    IN  IF S = {} \/ ~StrptimeOK(text[Min(S)])
        THEN [raised |-> TRUE, date_str |-> NoneText, date_obj |-> NoneDT]
        ELSE LET tok == text[Min(S)]
             IN  [raised |-> FALSE,
                  date_str |-> Some(<<tok.s, " ">> \o Digits(tok.n) \o <<" ">> \o Digits(tok.y)),
                  date_obj |-> Some(DT(tok.y, MonthNumber(tok.s), tok.n, 0, 0, 0))]

-----------------------------------------------------------------------------
(* CLIParser._parse_temperature *)

\* <label>\s+(\d+)\s+(\d+)(?:\s+)([AP]M) at position k
TimedAt(text, k, label) ==
    /\ k + 3 <= Len(text)
    /\ text[k] = W(label)
    /\ text[k + 1].t = "int"
    /\ text[k + 2].t = "int"
    /\ text[k + 3] \in {W("AM"), W("PM")}

\* <label>\s+(\d+) at position a: the digits that start an integer or a decimal
NumAt(text, a, label) ==
    /\ a + 1 <= Len(text)
    /\ text[a] = W(label)
    /\ text[a + 1].t \in {"int", "dec"}

\* int() of the (\d+) group matched at the head of a number token
IntPrefix(tok) == IF tok.t = "dec" THEN tok.n \div 100 ELSE tok.n

\* Positions from which the rest of temp_pattern matches (lazy .*? takes the least)
TempAvgSet(text, from) == {a \in from..Len(text) : NumAt(text, a, "AVERAGE")}
TempMinSet(text, from) ==
    {m \in from..Len(text) : TimedAt(text, m, "MINIMUM") /\ TempAvgSet(text, m + 4) # {}}
TempMaxSet(text, from) ==
    {k \in from..Len(text) : TimedAt(text, k, "MAXIMUM") /\ TempMinSet(text, k + 4) # {}}
TempYSet(text, from) ==
    {j \in from..Len(text) : Holds(text[j], "YESTERDAY") /\ TempMaxSet(text, j + 1) # {}}
TempHSet(text) ==
    {i \in 1..Len(text) : Holds(text[i], "TEMPERATURE (F)") /\ TempYSet(text, i + 1) # {}}

\* temp_match: the seven groups of re.search(temp_pattern, report_content, re.DOTALL)
TempMatch(text) ==
    LET i == Min(TempHSet(text))
        j == Min(TempYSet(text, i + 1))
        k == Min(TempMaxSet(text, j + 1))
        m == Min(TempMinSet(text, k + 4))
        a == Min(TempAvgSet(text, m + 4))
    IN  [max_temp |-> text[k + 1].n, max_time_hour |-> text[k + 2].n,
         max_time_ampm |-> text[k + 3].s,
         min_temp |-> text[m + 1].n, min_time_hour |-> text[m + 2].n,
         min_time_ampm |-> text[m + 3].s,
         avg_temp |-> IntPrefix(text[a + 1])]

\* Mutant of Hour24: 12 AM is not taken to hour 0.
Hour24_NoMidnight(hour, ampm) ==
    IF ampm = "PM" /\ hour < 12 THEN hour + 12 ELSE hour

\* The 12-hour to 24-hour conversion applied to max_hour and min_hour
Hour24(hour, ampm) ==
    IF ampm = "PM" /\ hour < 12 THEN hour + 12
    ELSE IF ampm = "AM" /\ hour = 12 THEN 0
    ELSE hour

\* Mutant of ClockString: the minute is written without zero padding.
ClockString_NoPad(hhmm, ampm) ==
    Digits(hhmm \div 100) \o <<":">> \o Digits(hhmm % 100) \o <<" ">>
      \o (IF ampm = "PM" THEN <<"P", "M">> ELSE <<"A", "M">>)

\* f"{hour}:{minute:02d} {ampm}"
ClockString(hhmm, ampm) ==
    Digits(hhmm \div 100) \o <<":">> \o Pad2(hhmm % 100) \o <<" ">>
      \o (IF ampm = "PM" THEN <<"P", "M">> ELSE <<"A", "M">>)

NoTemp ==
    [max |-> 0, min |-> 0, avg |-> 0, max_time |-> <<>>, min_time |-> <<>>,
     max_datetime |-> DT(0, 0, 0, 0, 0, 0), min_datetime |-> DT(0, 0, 0, 0, 0, 0)]

\* Mutant of parse_temperature: a text the pattern does not match yields a
\* dictionary of defaults instead of None.
parse_temperature_defaults(text, report_date, now) ==
    [kind |-> "ok", data |-> NoTemp]

\* Mutant of parse_temperature: the date is always taken from datetime.now().
parse_temperature_AlwaysNow(text, report_date, now) ==
    IF TempHSet(text) = {} THEN [kind |-> "none", data |-> NoTemp]
    ELSE
      LET g == TempMatch(text)
          max_hour == g.max_time_hour \div 100
          max_minute == g.max_time_hour % 100
          min_hour == g.min_time_hour \div 100
          min_minute == g.min_time_hour % 100
          max_hour_24 == Hour24(max_hour, g.max_time_ampm)
          min_hour_24 == Hour24(min_hour, g.min_time_ampm)
          base == now
      IN  IF ~DatetimeOK(max_hour_24, max_minute) \/ ~DatetimeOK(min_hour_24, min_minute)
          THEN [kind |-> "raise", data |-> NoTemp]
          ELSE [kind |-> "ok",
                data |-> [max |-> g.max_temp, min |-> g.min_temp, avg |-> g.avg_temp,
                          max_time |-> ClockString(g.max_time_hour, g.max_time_ampm),
                          min_time |-> ClockString(g.min_time_hour, g.min_time_ampm),
                          max_datetime |-> DT(base.year, base.month, base.day,
                                              max_hour_24, max_minute, 0),
                          min_datetime |-> DT(base.year, base.month, base.day,
                                              min_hour_24, min_minute, 0)]]

\* [kind, data]: kind "none" when temp_pattern does not match, "raise" when a
\* datetime constructor raises ValueError, "ok" with the dictionary otherwise.
\* base is report_date when it is given and datetime.now() otherwise.
parse_temperature(text, report_date, now) ==
    IF TempHSet(text) = {} THEN [kind |-> "none", data |-> NoTemp]
    ELSE
      LET g == TempMatch(text)
          max_hour == g.max_time_hour \div 100
          max_minute == g.max_time_hour % 100
          min_hour == g.min_time_hour \div 100
          min_minute == g.min_time_hour % 100
          max_hour_24 == Hour24(max_hour, g.max_time_ampm)
          min_hour_24 == Hour24(min_hour, g.min_time_ampm)
          base == IF report_date.some THEN report_date.v ELSE now
      IN  IF ~DatetimeOK(max_hour_24, max_minute) \/ ~DatetimeOK(min_hour_24, min_minute)
          THEN [kind |-> "raise", data |-> NoTemp]
          ELSE [kind |-> "ok",
                data |-> [max |-> g.max_temp, min |-> g.min_temp, avg |-> g.avg_temp,
                          max_time |-> ClockString(g.max_time_hour, g.max_time_ampm),
                          min_time |-> ClockString(g.min_time_hour, g.min_time_ampm),
                          max_datetime |-> DT(base.year, base.month, base.day,
                                              max_hour_24, max_minute, 0),
                          min_datetime |-> DT(base.year, base.month, base.day,
                                              min_hour_24, min_minute, 0)]]

-----------------------------------------------------------------------------
(* CLIParser._parse_precipitation, _parse_humidity, _parse_wind *)

\* PRECIPITATION \(IN\).*?YESTERDAY\s+(\d+\.\d+)
PrecipYSet(text, from) ==
    {y \in from..(Len(text) - 1) : text[y] = W("YESTERDAY") /\ text[y + 1].t = "dec"}
PrecipHSet(text) ==
    {p \in 1..Len(text) : text[p] = W("PRECIPITATION (IN)") /\ PrecipYSet(text, p + 1) # {}}

\* None, or {"yesterday": float(group 1)} (in hundredths)
parse_precipitation(text) ==
    IF PrecipHSet(text) = {} THEN NoneInt
    ELSE Some(text[Min(PrecipYSet(text, Min(PrecipHSet(text)) + 1)) + 1].n)

\* RELATIVE HUMIDITY \(PERCENT\).*?HIGHEST\s+(\d+).*?LOWEST\s+(\d+).*?AVERAGE\s+(\d+)
HumAvgSet(text, from) == {a \in from..Len(text) : NumAt(text, a, "AVERAGE")}
HumLowSet(text, from) ==
    {l \in from..Len(text) : NumAt(text, l, "LOWEST") /\ HumAvgSet(text, l + 2) # {}}
HumHighSet(text, from) ==
    {h \in from..Len(text) : NumAt(text, h, "HIGHEST") /\ HumLowSet(text, h + 2) # {}}
HumHSet(text) ==
    {p \in 1..Len(text) :
        text[p] = W("RELATIVE HUMIDITY (PERCENT)") /\ HumHighSet(text, p + 1) # {}}

NoHumidity == [some |-> FALSE, highest |-> 0, lowest |-> 0, average |-> 0]

parse_humidity(text) ==
    IF HumHSet(text) = {} THEN NoHumidity
    ELSE LET h == Min(HumHighSet(text, Min(HumHSet(text)) + 1))
             l == Min(HumLowSet(text, h + 2))
             a == Min(HumAvgSet(text, l + 2))
         IN  [some |-> TRUE, highest |-> IntPrefix(text[h + 1]),
              lowest |-> IntPrefix(text[l + 1]), average |-> IntPrefix(text[a + 1])]

\* WIND \(MPH\).*?HIGHEST WIND SPEED\s+(\d+).*?HIGHEST WIND DIRECTION\s+([A-Z]+)
\*   .*?AVERAGE WIND SPEED\s+([\d\.]+)
WindAvgSet(text, from) ==
    {a \in from..(Len(text) - 1) :
        text[a] = W("AVERAGE WIND SPEED") /\ text[a + 1].t \in {"int", "dec", "dots"}}
WindDirSet(text, from) ==
    {d \in from..(Len(text) - 1) :
        /\ text[d] = W("HIGHEST WIND DIRECTION")
        /\ text[d + 1].t = "w"
        /\ WindAvgSet(text, d + 2) # {}}
WindSpeedSet(text, from) ==
    {s \in from..Len(text) :
        NumAt(text, s, "HIGHEST WIND SPEED") /\ WindDirSet(text, s + 2) # {}}
WindHSet(text) ==
    {p \in 1..Len(text) : text[p] = W("WIND (MPH)") /\ WindSpeedSet(text, p + 1) # {}}

NoWind == [kind |-> "none", highest_speed |-> 0, highest_direction |-> "",
           average_speed |-> 0]

\* kind "none" when wind_pattern does not match, "raise" when float() rejects
\* the third group (a run of dots holds no number), "ok" otherwise.
parse_wind(text) ==
    IF WindHSet(text) = {} THEN NoWind
    ELSE LET s == Min(WindSpeedSet(text, Min(WindHSet(text)) + 1))
             d == Min(WindDirSet(text, s + 2))
             a == Min(WindAvgSet(text, d + 2))
         IN  IF text[a + 1].t = "dots" THEN [NoWind EXCEPT !.kind = "raise"]
             ELSE [kind |-> "ok", highest_speed |-> IntPrefix(text[s + 1]),
                   highest_direction |-> text[d + 1].s,
                   average_speed |-> IF text[a + 1].t = "int" THEN text[a + 1].n * 100
                                     ELSE text[a + 1].n]

-----------------------------------------------------------------------------
(* models/climate_data.py: CLIData *)

\* Keyword arguments of the constructor; some = FALSE is an omitted argument.
NoArgs ==
    [report_date |-> NoneText, report_datetime |-> NoneDT, station_id |-> NoneStr,
     temperature_max |-> NoneInt, temperature_min |-> NoneInt,
     temperature_avg |-> NoneInt,
     temperature_max_time |-> NoneText, temperature_min_time |-> NoneText,
     temperature_max_datetime |-> NoneDT, temperature_min_datetime |-> NoneDT,
     precipitation_yesterday |-> NoneInt,
     humidity_highest |-> NoneInt, humidity_lowest |-> NoneInt,
     humidity_avg |-> NoneInt,
     wind_highest_speed |-> NoneInt, wind_highest_direction |-> NoneStr,
     wind_avg_speed |-> NoneInt]

\* The fields in declaration order, the order pydantic validates them in.
FieldOrder ==
    <<"report_date", "report_datetime", "station_id",
      "temperature_max", "temperature_min", "temperature_avg",
      "temperature_max_time", "temperature_min_time",
      "temperature_max_datetime", "temperature_min_datetime",
      "precipitation_yesterday",
      "humidity_highest", "humidity_lowest", "humidity_avg",
      "wind_highest_speed", "wind_highest_direction", "wind_avg_speed">>

RequiredFields ==
    {"station_id", "temperature_max", "temperature_min", "temperature_avg",
     "temperature_max_time", "temperature_min_time",
     "temperature_max_datetime", "temperature_min_datetime"}

\* Mutant of check_temperature_values: the upper limit mistyped.
check_temperature_values_wide(v) == ~(v < -150 \/ v > 250)

check_temperature_values(v) == ~(v < -150 \/ v > 150)

\* precipitation is held in hundredths; the sign test is the same
check_precipitation_values(v) == ~(v.some /\ v.v < 0)

\* Mutant of check_humidity_values: the upper limit is not tested.
check_humidity_values_NoUpper(v) == ~(v.some /\ v.v < 0)

check_humidity_values(v) == ~(v.some /\ (v.v < 0 \/ v.v > 100))

check_wind_speed_values(v) == ~(v.some /\ v.v < 0)

\* "" when the argument passes, else the kind of error pydantic records for it
FieldError(kw, f) ==
    IF f \in RequiredFields /\ ~kw[f].some THEN "missing"
    ELSE IF f \in {"temperature_max", "temperature_min", "temperature_avg"}
            /\ ~check_temperature_values(kw[f].v) THEN "value_error"
    ELSE IF f = "precipitation_yesterday" /\ ~check_precipitation_values(kw[f])
         THEN "value_error"
    ELSE IF f \in {"humidity_highest", "humidity_lowest", "humidity_avg"}
            /\ ~check_humidity_values(kw[f]) THEN "value_error"
    ELSE IF f \in {"wind_highest_speed", "wind_avg_speed"}
            /\ ~check_wind_speed_values(kw[f]) THEN "value_error"
    ELSE ""

\* The object a successful construction yields: required fields hold their
\* value, optional fields their argument or their default.
CLIDataObject(kw) ==
    [report_date |-> kw.report_date, report_datetime |-> kw.report_datetime,
     station_id |-> kw.station_id.v,
     temperature_max |-> kw.temperature_max.v,
     temperature_min |-> kw.temperature_min.v,
     temperature_avg |-> kw.temperature_avg.v,
     temperature_max_time |-> kw.temperature_max_time.v,
     temperature_min_time |-> kw.temperature_min_time.v,
     temperature_max_datetime |-> kw.temperature_max_datetime.v,
     temperature_min_datetime |-> kw.temperature_min_datetime.v,
     precipitation_yesterday |->
         IF kw.precipitation_yesterday.some THEN kw.precipitation_yesterday
         ELSE Some(0),
     humidity_highest |-> kw.humidity_highest, humidity_lowest |-> kw.humidity_lowest,
     humidity_avg |-> kw.humidity_avg,
     wind_highest_speed |-> kw.wind_highest_speed,
     wind_highest_direction |-> kw.wind_highest_direction,
     wind_avg_speed |-> kw.wind_avg_speed]

NoCLIData == [some |-> FALSE, v |-> CLIDataObject(NoArgs)]

\* Mutant of CLIData: validation stops at the first failing field.
CLIData_FailFast(kw) ==
    LET errors == SelectSeq(FieldOrder, LAMBDA f : FieldError(kw, f) # "")
        first_only == IF errors = <<>> THEN <<>> ELSE <<errors[1]>>
    IN  [ok |-> errors = <<>>, errors |-> first_only,
         obj |-> IF errors = <<>> THEN Some(CLIDataObject(kw)) ELSE NoCLIData]

\* CLIData(**kw): [ok, errors, obj]; the ValidationError raised when ok is
\* FALSE carries one entry per failing field, in declaration order.
CLIData(kw) ==
    LET errors == SelectSeq(FieldOrder, LAMBDA f : FieldError(kw, f) # "")
    IN  [ok |-> errors = <<>>, errors |-> errors,
         obj |-> IF errors = <<>> THEN Some(CLIDataObject(kw)) ELSE NoCLIData]

-----------------------------------------------------------------------------
(* cli_operations.py: format_kafka_beats *)

\* Mutant of create_beat: every beat is given the station KNYC.
create_beat_FixedStation(cd, measurement_type, value, unit, observation_type, timestamp, period) ==
    [measurement_type |-> measurement_type, value |-> value, unit |-> unit,
     observation_type |-> observation_type, timestamp |-> timestamp,
     period |-> period, station_id |-> "KNYC", service |-> "CLI"]

\* Mutant of create_beat: the period argument is not handed on to KafkaBeat.
create_beat_NoPeriod(cd, measurement_type, value, unit, observation_type, timestamp, period) ==
    [measurement_type |-> measurement_type, value |-> value, unit |-> unit,
     observation_type |-> observation_type, timestamp |-> timestamp,
     period |-> NoneStr, station_id |-> cd.station_id, service |-> "CLI"]

create_beat(cd, measurement_type, value, unit, observation_type, timestamp, period) ==
    [measurement_type |-> measurement_type, value |-> value, unit |-> unit,
     observation_type |-> observation_type, timestamp |-> timestamp,
     period |-> period, station_id |-> cd.station_id, service |-> "CLI"]

\* Mutant of format_kafka_beats: the period-based observations are appended
\* whether or not there is an end-of-day timestamp.
format_kafka_beats_Ungated(cd) ==
    LET end_of_day_timestamp ==
            IF cd.report_datetime.some
            THEN Some(strftime(DT(cd.report_datetime.v.year, cd.report_datetime.v.month,
                                  cd.report_datetime.v.day, 23, 59, 59)))
            ELSE NoneText
        eod == end_of_day_timestamp.v
        instantaneous ==
            <<create_beat(cd, "temperature", cd.temperature_max, "F", "max",
                          strftime(cd.temperature_max_datetime), NoneStr),
              create_beat(cd, "temperature", cd.temperature_min, "F", "min",
                          strftime(cd.temperature_min_datetime), NoneStr)>>
        average ==
            <<create_beat(cd, "temperature", cd.temperature_avg, "F", "average",
                          eod, Some("daily"))>>
        precipitation ==
            IF cd.precipitation_yesterday.some
            THEN <<create_beat(cd, "precipitation", cd.precipitation_yesterday.v, "IN",
                               "total", eod, Some("daily"))>>
            ELSE <<>>
        humidity ==
            IF cd.humidity_avg.some
            THEN <<create_beat(cd, "humidity", cd.humidity_avg.v, "%", "average",
                               eod, Some("daily"))>>
            ELSE <<>>
        wind ==
            IF cd.wind_highest_speed.some
            THEN <<create_beat(cd, "wind_speed", cd.wind_highest_speed.v, "MPH", "max",
                               eod, NoneStr)>>
            ELSE <<>>
    IN  instantaneous \o average \o precipitation \o humidity \o wind


format_kafka_beats(cd) ==
    LET end_of_day_timestamp ==
            IF cd.report_datetime.some
            THEN Some(strftime(DT(cd.report_datetime.v.year, cd.report_datetime.v.month,
                                  cd.report_datetime.v.day, 23, 59, 59)))
            ELSE NoneText
        eod == end_of_day_timestamp.v
        instantaneous ==
            <<create_beat(cd, "temperature", cd.temperature_max, "F", "max",
                          strftime(cd.temperature_max_datetime), NoneStr),
              create_beat(cd, "temperature", cd.temperature_min, "F", "min",
                          strftime(cd.temperature_min_datetime), NoneStr)>>
        average ==
            <<create_beat(cd, "temperature", cd.temperature_avg, "F", "average",
                          eod, Some("daily"))>>
        precipitation ==
            IF cd.precipitation_yesterday.some
            THEN <<create_beat(cd, "precipitation", cd.precipitation_yesterday.v, "IN",
                               "total", eod, Some("daily"))>>
            ELSE <<>>
        humidity ==
            IF cd.humidity_avg.some
            THEN <<create_beat(cd, "humidity", cd.humidity_avg.v, "%", "average",
                               eod, Some("daily"))>>
            ELSE <<>>
        wind ==
            IF cd.wind_highest_speed.some
            THEN <<create_beat(cd, "wind_speed", cd.wind_highest_speed.v, "MPH", "max",
                               eod, NoneStr)>>
            ELSE <<>>
    IN  IF end_of_day_timestamp.some
        THEN instantaneous \o average \o precipitation \o humidity \o wind
        ELSE instantaneous

-----------------------------------------------------------------------------
(* parsers/cli.py: extract_report_content *)

\* HTML text is a sequence of nodes in document order: elements with their
\* tag as written, their set of classes and their text, and runs of white
\* space between them.
Node(tag, class, text) == [tag |-> tag, class |-> class, text |-> text]
WS == Node("#ws", {}, <<>>)

\* html.parser hands tag names on in lower case
ParsedTag(tag) == IF tag = "PRE" THEN "pre" ELSE tag

\* What soup.find('pre', class_='glossaryProduct') accepts
IsReportElement(node) ==
    ParsedTag(node.tag) = "pre" /\ "glossaryProduct" \in node.class

\* Mutant of extract_report_content: the last matching element is taken.
extract_report_content_Last(html_content) ==
    LET found == {i \in 1..Len(html_content) : IsReportElement(html_content[i])}
    IN  IF found = {}
        THEN [raised |-> TRUE, text |-> <<>>]
        ELSE [raised |-> FALSE,
              text |-> html_content[CHOOSE i \in found : \A j \in found : j <= i].text]

\* [raised, text]: raised when find returns None, else the text of the first
\* matching element
extract_report_content(html_content) ==
    LET found == {i \in 1..Len(html_content) : IsReportElement(html_content[i])}
    IN  IF found = {}
        THEN [raised |-> TRUE, text |-> <<>>]
        ELSE [raised |-> FALSE, text |-> html_content[Min(found)].text]

-----------------------------------------------------------------------------
(* scrapers/cli.py: CLIScraper *)

\* A dict is the sequence of its <<key, value>> items in insertion order.
DictKeys(d) == {d[i][1] : i \in 1..Len(d)}
DictGet(d, k) == d[CHOOSE i \in 1..Len(d) : d[i][1] = k][2]
DictPop(d, k) == SelectSeq(d, LAMBDA kv : kv[1] # k)
\* d.update(e): a key of d keeps its place and takes e's value, new keys follow
DictUpdate(d, e) ==
    [i \in 1..Len(d) |->
        IF d[i][1] \in DictKeys(e) THEN <<d[i][1], DictGet(e, d[i][1])>> ELSE d[i]]
      \o SelectSeq(e, LAMBDA kv : kv[1] \notin DictKeys(d))

RECURSIVE urlencode(_)
\* urlencode(params) for keys and values that need no quoting
urlencode(params) ==
    IF params = <<>> THEN <<>>
    ELSE <<params[1][1], "=", params[1][2]>>
           \o (IF Len(params) > 1 THEN <<"&">> \o urlencode(Tail(params)) ELSE <<>>)

\* [raised, url, cli_config]: raised is the KeyError of an unknown location;
\* cli_config is the configuration after the call, pop('name') having taken
\* the name out of the location's own dict.
build_url(cfg, location_key) ==
    IF location_key \notin DictKeys(cfg.locations)
    THEN [raised |-> TRUE, url |-> <<>>, cli_config |-> cfg]
    ELSE LET location_params == DictPop(DictGet(cfg.locations, location_key), "name")
             params == DictUpdate(cfg.default_params, location_params)
         IN  [raised |-> FALSE,
              url |-> <<cfg.base_url, "?">> \o urlencode(params),
              cli_config |->
                  [cfg EXCEPT !.locations =
                      DictUpdate(@, <<<<location_key, location_params>>>>)]]

RECURSIVE lstrip(_)
lstrip(text) == IF text # <<>> /\ text[1] = WS THEN lstrip(Tail(text)) ELSE text

RECURSIVE rstrip(_)
rstrip(text) ==
    IF text # <<>> /\ text[Len(text)] = WS
    THEN rstrip(SubSeq(text, 1, Len(text) - 1)) ELSE text

\* str.strip()
strip(text) == rstrip(lstrip(text))

Exception(type, msg) == [type |-> type, msg |-> msg]
NoException == Exception("", <<>>)

\* What the network did with a request: requests.get raised ConnectionError
\* or Timeout, raise_for_status raised HTTPError, or the response is fine
\* ("ok") and has the given text.
NetResult(kind, msg, text) == [kind |-> kind, msg |-> msg, text |-> text]
NoResponse == NetResult("", <<>>, <<>>)

\* Mutant of fetch_report: the text is returned stripped.
fetch_report_Stripped(cfg, location_key, net) ==
    LET b == build_url(cfg, location_key)
    IN  IF b.raised
        THEN [raised |-> TRUE, exc |-> Exception("KeyError", <<location_key>>),
              text |-> <<>>, requests |-> 0, cli_config |-> b.cli_config]
        ELSE IF net.kind # "ok"
        THEN [raised |-> TRUE,
              exc |-> Exception("RequestException",
                         <<"Error fetching CLI report for ", location_key, ": ">>
                           \o net.msg),
              text |-> <<>>, requests |-> 1, cli_config |-> b.cli_config]
        ELSE IF strip(net.text) = <<>>
        THEN [raised |-> TRUE,
              exc |-> Exception("ValueError",
                         <<"Empty response received from ">> \o b.url),
              text |-> <<>>, requests |-> 1, cli_config |-> b.cli_config]
        ELSE [raised |-> FALSE, exc |-> NoException, text |-> strip(net.text),
              requests |-> 1, cli_config |-> b.cli_config]

\* fetch_report(location_key) with configuration cfg, when the network answers
\* the request with net: [raised, exc, text, requests, cli_config], requests
\* being the number of calls of requests.get.  KeyError and ValueError are
\* not RequestExceptions and leave the try block as they are.
fetch_report(cfg, location_key, net) ==
    LET b == build_url(cfg, location_key)
    IN  IF b.raised
        THEN [raised |-> TRUE, exc |-> Exception("KeyError", <<location_key>>),
              text |-> <<>>, requests |-> 0, cli_config |-> b.cli_config]
        ELSE IF net.kind # "ok"
        THEN [raised |-> TRUE,
              exc |-> Exception("RequestException",
                         <<"Error fetching CLI report for ", location_key, ": ">>
                           \o net.msg),
              text |-> <<>>, requests |-> 1, cli_config |-> b.cli_config]
        ELSE IF strip(net.text) = <<>>
        THEN [raised |-> TRUE,
              exc |-> Exception("ValueError",
                         <<"Empty response received from ">> \o b.url),
              text |-> <<>>, requests |-> 1, cli_config |-> b.cli_config]
        ELSE [raised |-> FALSE, exc |-> NoException, text |-> net.text,
              requests |-> 1, cli_config |-> b.cli_config]

-----------------------------------------------------------------------------
(* producers/producer.py and cli_operations.py: publish_beats_to_kafka *)

\* def send_beat(self, topic, beat, key=None)
SendBeatParams == <<"topic", "beat", "key">>
SendBeatRequired == {"topic", "beat"}

\* producer.send_beat(beat, topic=topic): the expressions given by position
\* and by keyword
SendBeatPositional == <<"beat">>
SendBeatKeywords == <<<<"topic", "topic">>>>

\* Python's binding of the arguments of a call to the parameters of a method:
\* [raised, args], raised being the TypeError of too many positional
\* arguments, of a parameter given twice, of an unknown keyword or of a
\* missing required parameter; args maps each parameter to the expression
\* bound to it ("None" for a default).
BindCall(params, required, positional, keywords) ==
    LET names == {params[i] : i \in 1..Len(params)}
        by_position == {params[i] : i \in 1..Len(params)} \ 
                         {params[i] : i \in (Len(positional) + 1)..Len(params)}
        by_keyword == {keywords[i][1] : i \in 1..Len(keywords)}
        raised ==
            \/ Len(positional) > Len(params)
            \/ by_keyword \cap by_position # {}
            \/ ~(by_keyword \subseteq names)
            \/ ~(required \subseteq (by_position \cup by_keyword))
    IN  [raised |-> raised,
         args |-> [p \in names |->
                     IF raised THEN "None"
                     ELSE IF p \in by_position
                     THEN positional[CHOOSE i \in 1..Len(positional) : params[i] = p]
                     ELSE IF p \in by_keyword
                     THEN keywords[CHOOSE i \in 1..Len(keywords) : keywords[i][1] = p][2]
                     ELSE "None"]]

-----------------------------------------------------------------------------
(* Inputs *)

\* Longest report text given to the classifier when it is checked on its own
MaxTextLen == 4

\* Largest hour field of an HHMM token given to _parse_temperature on its own
MaxHour == 13

Stations == {"KNYC", "KLGA"}

\* Values datetime.now() may yield (the date part is all the code reads)
NowDates == {DT(2025, 4, 18, 0, 0, 0), DT(2026, 1, 1, 0, 0, 0)}

TempSection(hdr, marker, mx, mxt, mxm, mn, mnt, mnm, av) ==
    <<W(hdr), W(marker), W("MAXIMUM"), mx, I(mxt), W(mxm),
      W("MINIMUM"), mn, I(mnt), W(mnm), W("AVERAGE"), av>>

DateParts ==
    {<<>>, <<Summary("APRIL", 17, 2025)>>, <<Summary("APRIL", 31, 2025)>>,
     <<Summary("DECEMBER", 5, 2024)>>}

TempParts ==
    {<<>>,
     TempSection(HDR_NL, "YESTERDAY", I(64), 341, "PM", I(42), 542, "AM", I(53)),
     TempSection(HDR_WS, "YESTERDAY", I(64), 341, "PM", I(42), 542, "AM", I(53)),
     TempSection(HDR_NL, "TODAY", I(64), 341, "PM", I(42), 542, "AM", I(53)),
     TempSection(HDR_NL, "YESTERDAY", I(200), 341, "PM", I(42), 542, "AM", I(53)),
     TempSection(HDR_NL, "YESTERDAY", I(150), 1200, "PM", I(0), 1200, "AM", I(75)),
     TempSection(HDR_NL, "YESTERDAY", I(64), 341, "PM", I(42), 542, "AM", I(151)),
     TempSection(HDR_NL, "YESTERDAY", I(200), 341, "PM", I(42), 542, "AM", I(151)),
     TempSection(HDR_NL, "YESTERDAY", W("MM"), 341, "PM", I(42), 542, "AM", I(53)),
     TempSection(HDR_NL, "YESTERDAY", I(64), 341, "PM", I(42), 542, "AM", W("MM")),
     TempSection(HDR_NL, "YESTERDAY", I(64), 2500, "PM", I(42), 542, "AM", I(53)),
     TempSection(HDR_WS, "TODAY", I(64), 341, "PM", I(42), 542, "AM", I(53))}

PrecipParts ==
    {<<>>,
     <<W("PRECIPITATION (IN)"), W("YESTERDAY"), D(0)>>,
     <<W("PRECIPITATION (IN)"), W("YESTERDAY"), D(25)>>,
     <<W("PRECIPITATION (IN)"), W("YESTERDAY"), W("T"),
       W("SNOWFALL (IN)"), W("YESTERDAY"), D(10)>>}

WindParts ==
    {<<>>,
     <<W("WIND (MPH)"), W("HIGHEST WIND SPEED"), I(17),
       W("HIGHEST WIND DIRECTION"), W("NW"), W("AVERAGE WIND SPEED"), D(660)>>,
     <<W("WIND (MPH)"), W("HIGHEST WIND SPEED"), I(17),
       W("HIGHEST WIND DIRECTION"), W("NW"), W("AVERAGE WIND SPEED"), Dots>>,
     <<W("WIND (MPH)"), W("HIGHEST WIND SPEED"), W("MM"),
       W("HIGHEST WIND DIRECTION"), W("NW"), W("AVERAGE WIND SPEED"), D(660)>>}

HumidityParts ==
    {<<>>,
     <<W("RELATIVE HUMIDITY (PERCENT)"), W("HIGHEST"), I(55), W("LOWEST"), I(15),
       W("AVERAGE"), I(35)>>,
     <<W("RELATIVE HUMIDITY (PERCENT)"), W("HIGHEST"), I(120), W("LOWEST"), I(15),
       W("AVERAGE"), I(35)>>,
     <<W("RELATIVE HUMIDITY (PERCENT)"), W("HIGHEST"), I(55), W("LOWEST"), I(15)>>}

ValidityParts == {<<>>, <<W("VALID TODAY AS OF")>>}

\* Bulletins in the layout of the service's product: validity line, summary
\* line, temperature, precipitation, wind, relative humidity.
Bulletins ==
    {v \o d \o t \o p \o w \o h :
        v \in ValidityParts, d \in DateParts, t \in TempParts, p \in PrecipParts,
        w \in WindParts, h \in HumidityParts}

ClassifierWords ==
    {HDR_NL, HDR_WS, "YESTERDAY", "TODAY", "VALID TODAY AS OF", "VALID TODAY",
     "MAXIMUM"}

ClassifierTexts ==
    UNION {[1..n -> {W(s) : s \in ClassifierWords}] : n \in 0..MaxTextLen}

HHMMs == {h * 100 + m : h \in (0..MaxHour) \cup {24, 25}, m \in {0, 41, 42, 75}}

ClockTexts ==
    {<<W(HDR_NL), W("YESTERDAY"), W("MAXIMUM"), I(64), I(a), W(am),
       W("MINIMUM"), I(42), I(b), W(bm), W("AVERAGE"), I(53)>> :
        a \in HHMMs, am \in {"AM", "PM"}, b \in HHMMs, bm \in {"AM", "PM"}}

\* A complete, valid set of constructor arguments
GoodArgs ==
    [NoArgs EXCEPT
        !.station_id = Some("KNYC"),
        !.temperature_max = Some(64), !.temperature_min = Some(42),
        !.temperature_avg = Some(53),
        !.temperature_max_time = Some(ClockString(341, "PM")),
        !.temperature_min_time = Some(ClockString(542, "AM")),
        !.temperature_max_datetime = Some(DT(2025, 4, 17, 15, 41, 0)),
        !.temperature_min_datetime = Some(DT(2025, 4, 17, 5, 42, 0))]

TempArgs == {Some(-151), Some(-150), Some(64), Some(150), Some(151), Some(200)}
HumidityArgs == {NoneInt, Some(-1), Some(0), Some(35), Some(100), Some(101), Some(120)}
PrecipArgs == {NoneInt, Some(-100), Some(-1), Some(0), Some(25)}
WindArgs == {NoneInt, Some(-1), Some(17)}

\* The configuration of cli.yaml as far as the tests show it, the location
\* with and without a name entry
BaseUrl == "https://forecast.weather.gov/product.php"
DefaultParams ==
    <<<<"product", "CLI">>, <<"format", "CI">>, <<"version", "1">>, <<"glossary", "0">>>>
LocationParams == <<<<"site", "OKX">>, <<"issuedby", "NYC">>>>
CliConfigPlain ==
    [base_url |-> BaseUrl, default_params |-> DefaultParams,
     locations |-> <<<<"KNYC", LocationParams>>>>]
CliConfigNamed ==
    [base_url |-> BaseUrl, default_params |-> DefaultParams,
     locations |-> <<<<"KNYC", <<<<"name", "Central Park">>>> \o LocationParams>>>>]
CliConfigs == {CliConfigPlain, CliConfigNamed}

\* A configuration of two named locations
CliConfigTwo ==
    [base_url |-> BaseUrl, default_params |-> DefaultParams,
     locations |->
        <<<<"KNYC", <<<<"name", "Central Park">>>> \o LocationParams>>,
          <<"KLGA", <<<<"site", "OKX">>, <<"issuedby", "LGA">>, <<"name", "LaGuardia">>>>>>>>]

\* Most calls of build_url made on one scraper
MaxCalls == 4

\* Days the scheduler is followed for
MaxDays == 3

\* Location keys handed to the scraper: the configured one and an unknown one
LocationKeys == {"KNYC", "KXXX"}

\* Longest HTML text, in nodes, given to extract_report_content and
\* fetch_report when they are checked on their own
MaxNodes == 3

ReportTextA == <<W("CLIMATE REPORT"), Summary("APRIL", 17, 2025)>>
ReportTextB == <<W("CLIMATE REPORT")>>

HtmlNodes ==
    {WS,
     Node("body", {}, <<W("No pre element with class glossaryProduct here")>>),
     Node("pre", {"glossaryProduct"}, ReportTextA),
     Node("PRE", {"glossaryProduct", "wide"}, ReportTextB),
     Node("pre", {"glossaryproduct"}, ReportTextB),
     Node("pre", {}, ReportTextA),
     Node("div", {"glossaryProduct"}, ReportTextB)}

HtmlTexts == UNION {[1..n -> HtmlNodes] : n \in 0..MaxNodes}

\* What the network may do with the one request of a call
NetFailures ==
    {NetResult("ConnectionError", <<"Connection failed">>, <<>>),
     NetResult("Timeout", <<"Read timed out">>, <<>>),
     NetResult("HTTPError", <<"404 Client Error">>, <<>>)}

NetResults == NetFailures \cup {NetResult("ok", <<>>, t) : t \in HtmlTexts}

\* Bulletins the service may answer get_climate_data with
PipelineBulletins ==
    {d \o t \o w :
        d \in {<<>>, <<Summary("APRIL", 17, 2025)>>}, t \in TempParts, w \in WindParts}

PipelineResults ==
    NetFailures
      \cup {NetResult("ok", <<>>, t) :
               t \in {<<>>, <<WS>>,
                      <<Node("body", {}, <<W("No pre element with class glossaryProduct here")>>)>>}}
      \cup {NetResult("ok", <<>>, <<WS, Node("pre", {"glossaryProduct"}, b), WS>>) :
               b \in PipelineBulletins}

ConstructorArgs ==
    {[GoodArgs EXCEPT
        !.temperature_max = tx, !.temperature_min = tn, !.temperature_avg = ta,
        !.humidity_highest = hh, !.humidity_avg = ha,
        !.precipitation_yesterday = pr, !.wind_highest_speed = ws] :
        tx \in TempArgs \cup {NoneInt}, tn \in {Some(-151), Some(42), Some(151)},
        ta \in {Some(-200), Some(53), Some(150)},
        hh \in {NoneInt, Some(55), Some(101)}, ha \in HumidityArgs,
        pr \in PrecipArgs, ws \in WindArgs}

\* The lists handed to publish_beats_to_kafka: the empty list and the beats of
\* the records of valid constructor arguments, with and without a report date
BeatLists ==
    {<<>>} \cup
    {format_kafka_beats(CLIDataObject([kw EXCEPT !.report_datetime = d])) :
        kw \in {k \in ConstructorArgs : CLIData(k).ok},
        d \in {NoneDT, Some(DT(2025, 4, 17, 0, 0, 0))}}

-----------------------------------------------------------------------------
(* State machine *)

NoTempData == [some |-> FALSE, v |-> NoTemp]

\* No ObservationProducer has been created
NoProducer == [created |-> FALSE, sent |-> <<>>, flushes |-> <<>>, closed |-> FALSE]

\* start() has not been called.  Times are hours since 00:00 UTC of the day
\* of the call.
NoScheduler ==
    [started |-> FALSE, since |-> 0, now |-> 0, next_run |-> 0, runs |-> <<>>,
     exited |-> FALSE]

\* No earlier invocation
NoFirst ==
    [set |-> FALSE, pc |-> "", error |-> "", cli_data |-> NoCLIData, beats |-> <<>>]

\* Nothing has been called yet
FreshCall ==
    /\ steps = <<>>
    /\ valid = FALSE
    /\ rule = 0
    /\ report_date_str = NoneText
    /\ report_date_obj = NoneDT
    /\ temp_data = NoTempData
    /\ kwargs = NoArgs
    /\ cli_data = NoCLIData
    /\ error = ""
    /\ beats = <<>>
    /\ response = NoResponse
    /\ requests = 0
    /\ exc = NoException
    /\ first = NoFirst
    /\ topic = "observations"
    /\ producer = NoProducer
    /\ count = 0
    /\ scheduler = NoScheduler

\* parse_report is about to be called on a parser and a scraper that have
\* done nothing yet
Fresh ==
    /\ FreshCall
    /\ cli_config = CliConfigNamed
    /\ html = <<>>

\* parse_report(report, station_id) is about to run
Init ==
    /\ report \in Bulletins
    /\ station_id \in Stations
    /\ pc = "validate"
    /\ Fresh

\* Mutant of Validate: the rejection is computed but parsing goes on.
Validate_NoRaise ==
    /\ pc = "validate"
    /\ steps' = Append(steps, "validate")
    /\ valid' = validate_report_type(report)
    /\ rule' = Classification(report).rule
    /\ pc' = "date"
    /\ UNCHANGED <<fetch_vars, first>>
    /\ UNCHANGED <<publish_vars, scheduler>>
    /\ UNCHANGED <<report, station_id, report_date_str, report_date_obj, temp_data,
                   kwargs, cli_data, error, beats>>

\* parse_report, lines 114-116
Validate ==
    /\ pc = "validate"
    /\ steps' = Append(steps, "validate")
    /\ valid' = validate_report_type(report)
    /\ rule' = Classification(report).rule
    /\ IF validate_report_type(report)
       THEN pc' = "date" /\ error' = error
       ELSE /\ pc' = "raised"
            /\ error' = "ValueError: The CLI report does not contain yesterday's weather data."
    /\ UNCHANGED <<fetch_vars, first>>
    /\ UNCHANGED <<publish_vars, scheduler>>
    /\ UNCHANGED <<report, station_id, report_date_str, report_date_obj, temp_data,
                   kwargs, cli_data, beats>>

\* Mutant of ExtractDate: the ValueError of extract_report_date is not caught.
ExtractDate_Propagates ==
    /\ pc = "date"
    /\ steps' = Append(steps, "date")
    /\ LET r == extract_report_date(report)
       IN  /\ report_date_str' = r.date_str
           /\ report_date_obj' = r.date_obj
           /\ IF r.raised
              THEN /\ pc' = "raised"
                   /\ error' = "ValueError: Could not extract date from the CLI report"
              ELSE pc' = "temperature" /\ error' = error
    /\ UNCHANGED <<fetch_vars, first>>
    /\ UNCHANGED <<publish_vars, scheduler>>
    /\ UNCHANGED <<report, station_id, valid, rule, temp_data, kwargs, cli_data, beats>>

\* parse_report, lines 118-124: the ValueError of extract_report_date is swallowed
ExtractDate ==
    /\ pc = "date"
    /\ steps' = Append(steps, "date")
    /\ LET r == extract_report_date(report)
       IN  /\ report_date_str' = r.date_str
           /\ report_date_obj' = r.date_obj
    /\ pc' = "temperature"
    /\ UNCHANGED <<fetch_vars, first>>
    /\ UNCHANGED <<publish_vars, scheduler>>
    /\ UNCHANGED <<report, station_id, valid, rule, temp_data, kwargs, cli_data,
                   error, beats>>

\* parse_report, lines 126-129
ParseTemperature ==
    /\ pc = "temperature"
    /\ steps' = Append(steps, "temperature")
    /\ \E now \in NowDates :
         LET r == parse_temperature(report, report_date_obj, now)
         IN  IF r.kind = "ok"
             THEN /\ temp_data' = Some(r.data)
                  /\ pc' = "construct"
                  /\ error' = error
             ELSE /\ temp_data' = temp_data
                  /\ pc' = "raised"
                  /\ error' = IF r.kind = "none"
                              THEN "ValueError: Could not extract required temperature data from the report"
                              ELSE "ValueError: datetime field out of range"
    /\ UNCHANGED <<fetch_vars, first>>
    /\ UNCHANGED <<publish_vars, scheduler>>
    /\ UNCHANGED <<report, station_id, valid, rule, report_date_str, report_date_obj,
                   kwargs, cli_data, beats>>

\* The arguments parse_report gives the constructor, lines 132-143
ParseReportArgs(date_str, date_obj, station, td) ==
    [NoArgs EXCEPT
        !.report_date = date_str, !.report_datetime = date_obj,
        !.station_id = Some(station),
        !.temperature_max = Some(td.max), !.temperature_min = Some(td.min),
        !.temperature_avg = Some(td.avg),
        !.temperature_max_time = Some(td.max_time),
        !.temperature_min_time = Some(td.min_time),
        !.temperature_max_datetime = Some(td.max_datetime),
        !.temperature_min_datetime = Some(td.min_datetime)]

\* parse_report, lines 131-143
Construct ==
    /\ pc = "construct"
    /\ steps' = Append(steps, "construct")
    /\ kwargs' = ParseReportArgs(report_date_str, report_date_obj, station_id, temp_data.v)
    /\ LET r == CLIData(kwargs')
       IN  /\ cli_data' = r.obj
           /\ IF r.ok
              THEN pc' = "precipitation" /\ error' = error
              ELSE pc' = "raised" /\ error' = "ValidationError"
    /\ UNCHANGED <<fetch_vars, first>>
    /\ UNCHANGED <<publish_vars, scheduler>>
    /\ UNCHANGED <<report, station_id, valid, rule, report_date_str, report_date_obj,
                   temp_data, beats>>

\* Mutant of ParsePrecipitation: the result of _parse_precipitation is
\* assigned whether or not the pattern matched.
ParsePrecipitation_Unconditional ==
    /\ pc = "precipitation"
    /\ steps' = Append(steps, "precipitation")
    /\ cli_data' = [cli_data EXCEPT
                      !.v.precipitation_yesterday = parse_precipitation(report)]
    /\ pc' = "humidity"
    /\ UNCHANGED <<fetch_vars, first>>
    /\ UNCHANGED <<publish_vars, scheduler>>
    /\ UNCHANGED <<report, station_id, valid, rule, report_date_str, report_date_obj,
                   temp_data, kwargs, error, beats>>

\* parse_report, lines 145-148: plain attribute assignment, no validator runs
ParsePrecipitation ==
    /\ pc = "precipitation"
    /\ steps' = Append(steps, "precipitation")
    /\ LET precip_data == parse_precipitation(report)
       IN  cli_data' = IF precip_data.some
                       THEN [cli_data EXCEPT !.v.precipitation_yesterday = precip_data]
                       ELSE cli_data
    /\ pc' = "humidity"
    /\ UNCHANGED <<fetch_vars, first>>
    /\ UNCHANGED <<publish_vars, scheduler>>
    /\ UNCHANGED <<report, station_id, valid, rule, report_date_str, report_date_obj,
                   temp_data, kwargs, error, beats>>

\* Mutant of ParseHumidity: humidity_data is subscripted without the
\* "if humidity_data" guard.
ParseHumidity_Unguarded ==
    /\ pc = "humidity"
    /\ steps' = Append(steps, "humidity")
    /\ LET humidity_data == parse_humidity(report)
       IN  IF humidity_data.some
           THEN /\ cli_data' = [cli_data EXCEPT
                                  !.v.humidity_highest = Some(humidity_data.highest),
                                  !.v.humidity_lowest = Some(humidity_data.lowest),
                                  !.v.humidity_avg = Some(humidity_data.average)]
                /\ pc' = "wind"
                /\ error' = error
           ELSE /\ cli_data' = cli_data
                /\ pc' = "raised"
                /\ error' = "TypeError: 'NoneType' object is not subscriptable"
    /\ UNCHANGED <<fetch_vars, first>>
    /\ UNCHANGED <<publish_vars, scheduler>>
    /\ UNCHANGED <<report, station_id, valid, rule, report_date_str, report_date_obj,
                   temp_data, kwargs, beats>>

\* Mutant of ParseHumidity: the average is not assigned.
ParseHumidity_NoAverage ==
    /\ pc = "humidity"
    /\ steps' = Append(steps, "humidity")
    /\ LET humidity_data == parse_humidity(report)
       IN  cli_data' = IF humidity_data.some
                       THEN [cli_data EXCEPT
                               !.v.humidity_highest = Some(humidity_data.highest),
                               !.v.humidity_lowest = Some(humidity_data.lowest)]
                       ELSE cli_data
    /\ pc' = "wind"
    /\ UNCHANGED <<fetch_vars, first>>
    /\ UNCHANGED <<publish_vars, scheduler>>
    /\ UNCHANGED <<report, station_id, valid, rule, report_date_str, report_date_obj,
                   temp_data, kwargs, error, beats>>

\* parse_report, lines 150-158
ParseHumidity ==
    /\ pc = "humidity"
    /\ steps' = Append(steps, "humidity")
    /\ LET humidity_data == parse_humidity(report)
       IN  cli_data' = IF humidity_data.some
                       THEN [cli_data EXCEPT
                               !.v.humidity_highest = Some(humidity_data.highest),
                               !.v.humidity_lowest = Some(humidity_data.lowest),
                               !.v.humidity_avg = Some(humidity_data.average)]
                       ELSE cli_data
    /\ pc' = "wind"
    /\ UNCHANGED <<fetch_vars, first>>
    /\ UNCHANGED <<publish_vars, scheduler>>
    /\ UNCHANGED <<report, station_id, valid, rule, report_date_str, report_date_obj,
                   temp_data, kwargs, error, beats>>

\* parse_report, lines 160-170: returns cli_data unless float() raised in _parse_wind
ParseWind ==
    /\ pc = "wind"
    /\ steps' = Append(steps, "wind")
    /\ LET wind_data == parse_wind(report)
       IN  /\ cli_data' = IF wind_data.kind = "ok"
                          THEN [cli_data EXCEPT
                                  !.v.wind_highest_speed = Some(wind_data.highest_speed),
                                  !.v.wind_highest_direction =
                                      Some(wind_data.highest_direction),
                                  !.v.wind_avg_speed = Some(wind_data.average_speed)]
                          ELSE cli_data
           /\ IF wind_data.kind = "raise"
              THEN pc' = "raised" /\ error' = "ValueError: could not convert string to float"
              ELSE pc' = "parsed" /\ error' = error
    /\ UNCHANGED <<fetch_vars, first>>
    /\ UNCHANGED <<publish_vars, scheduler>>
    /\ UNCHANGED <<report, station_id, valid, rule, report_date_str, report_date_obj,
                   temp_data, kwargs, beats>>

\* Mutant of FormatKafkaBeats: the list is handed over last item first.
FormatKafkaBeats_Reversed ==
    /\ pc = "parsed"
    /\ beats' = [i \in 1..Len(format_kafka_beats(cli_data.v)) |->
                   format_kafka_beats(cli_data.v)[Len(format_kafka_beats(cli_data.v)) + 1 - i]]
    /\ pc' = "formatted"
    /\ UNCHANGED <<fetch_vars, first>>
    /\ UNCHANGED <<publish_vars, scheduler>>
    /\ UNCHANGED <<report, station_id, steps, valid, rule, report_date_str,
                   report_date_obj, temp_data, kwargs, cli_data, error>>

\* format_kafka_beats(cli_data) on the record parse_report returned
FormatKafkaBeats ==
    /\ pc = "parsed"
    /\ beats' = format_kafka_beats(cli_data.v)
    /\ pc' = "formatted"
    /\ UNCHANGED <<fetch_vars, first>>
    /\ UNCHANGED <<publish_vars, scheduler>>
    /\ UNCHANGED <<report, station_id, steps, valid, rule, report_date_str,
                   report_date_obj, temp_data, kwargs, cli_data, error>>

Next ==
    \/ Validate
    \/ ExtractDate
    \/ ParseTemperature
    \/ Construct
    \/ ParsePrecipitation
    \/ ParseHumidity
    \/ ParseWind
    \/ FormatKafkaBeats

Spec == Init /\ [][Next]_vars

-----------------------------------------------------------------------------
(* validate_report_type called on its own *)

InitClassify ==
    /\ report \in ClassifierTexts
    /\ station_id = "KNYC"
    /\ pc = "classify"
    /\ Fresh

Classify ==
    /\ pc = "classify"
    /\ valid' = validate_report_type(report)
    /\ rule' = Classification(report).rule
    /\ pc' = "classified"
    /\ UNCHANGED <<fetch_vars, first>>
    /\ UNCHANGED <<publish_vars, scheduler>>
    /\ UNCHANGED <<report, station_id, steps, report_date_str, report_date_obj,
                   temp_data, kwargs, cli_data, error, beats>>

SpecClassify == InitClassify /\ [][Classify]_vars

-----------------------------------------------------------------------------
(* _parse_temperature called on its own, with and without a report date *)

InitClock ==
    /\ report \in ClockTexts
    /\ station_id = "KNYC"
    /\ pc = "clock"
    /\ Fresh

ResolveClock ==
    /\ pc = "clock"
    /\ \E rd \in {NoneDT, Some(DT(2025, 4, 17, 0, 0, 0))} : \E now \in NowDates :
         LET r == parse_temperature(report, rd, now)
         IN  /\ report_date_obj' = rd
             /\ IF r.kind = "ok"
                THEN temp_data' = Some(r.data) /\ pc' = "resolved" /\ error' = error
                ELSE /\ temp_data' = temp_data
                     /\ pc' = "raised"
                     /\ error' = "ValueError: datetime field out of range"
    /\ UNCHANGED <<fetch_vars, first>>
    /\ UNCHANGED <<publish_vars, scheduler>>
    /\ UNCHANGED <<report, station_id, steps, valid, rule, report_date_str, kwargs,
                   cli_data, beats>>

SpecClock == InitClock /\ [][ResolveClock]_vars

-----------------------------------------------------------------------------
(* The CLIData constructor called on its own *)

InitConstruct ==
    /\ report = <<>>
    /\ station_id = "KNYC"
    /\ pc = "new"
    /\ Fresh

ConstructCall ==
    /\ pc = "new"
    /\ \E kw \in ConstructorArgs :
         LET r == CLIData(kw)
         IN  /\ kwargs' = kw
             /\ cli_data' = r.obj
             /\ IF r.ok
                THEN pc' = "constructed" /\ error' = error
                ELSE pc' = "raised" /\ error' = "ValidationError"
    /\ UNCHANGED <<fetch_vars, first>>
    /\ UNCHANGED <<publish_vars, scheduler>>
    /\ UNCHANGED <<report, station_id, steps, valid, rule, report_date_str,
                   report_date_obj, temp_data, beats>>

SpecConstruct == InitConstruct /\ [][ConstructCall]_vars

-----------------------------------------------------------------------------
(* extract_report_content called on its own *)

InitExtract ==
    /\ report = <<>>
    /\ station_id = "KNYC"
    /\ cli_config = CliConfigNamed
    /\ pc = "extract"
    /\ FreshCall
    /\ html \in HtmlTexts

ExtractCall ==
    /\ pc = "extract"
    /\ LET r == extract_report_content(html)
       IN  IF r.raised
           THEN /\ pc' = "raised"
                /\ error' = "ValueError: Could not find CLI report content in the HTML"
                /\ report' = report
           ELSE /\ pc' = "extracted"
                /\ error' = error
                /\ report' = r.text
    /\ UNCHANGED <<station_id, steps, valid, rule, report_date_str, report_date_obj,
                   temp_data, kwargs, cli_data, beats, fetch_vars, first>>
    /\ UNCHANGED <<publish_vars, scheduler>>

SpecExtract == InitExtract /\ [][ExtractCall]_vars

-----------------------------------------------------------------------------
(* parse_report and format_kafka_beats invoked twice on the same arguments *)

\* The first invocation is over; its outcome is kept and the same parser is
\* given the same report text and station identifier again.
Again ==
    /\ pc \in {"formatted", "raised"}
    /\ ~first.set
    /\ first' = [set |-> TRUE, pc |-> pc, error |-> error,
                 cli_data |-> IF pc = "formatted" THEN cli_data ELSE NoCLIData,
                 beats |-> beats]
    /\ pc' = "validate"
    /\ steps' = <<>>
    /\ valid' = FALSE
    /\ rule' = 0
    /\ report_date_str' = NoneText
    /\ report_date_obj' = NoneDT
    /\ temp_data' = NoTempData
    /\ kwargs' = NoArgs
    /\ cli_data' = NoCLIData
    /\ error' = ""
    /\ beats' = <<>>
    /\ UNCHANGED <<report, station_id, fetch_vars>>
    /\ UNCHANGED <<publish_vars, scheduler>>

NextTwice ==
    \/ Validate
    \/ ExtractDate
    \/ ParseTemperature
    \/ Construct
    \/ ParsePrecipitation
    \/ ParseHumidity
    \/ ParseWind
    \/ FormatKafkaBeats
    \/ Again

SpecTwice == Init /\ [][NextTwice]_vars

-----------------------------------------------------------------------------
(* fetch_report called on its own *)

InitFetch ==
    /\ report = <<>>
    /\ station_id \in LocationKeys
    /\ cli_config \in CliConfigs
    /\ html = <<>>
    /\ pc = "fetch"
    /\ FreshCall

\* fetch_report(station_id), the network answering with net
FetchReport ==
    /\ pc = "fetch"
    /\ \E net \in NetResults :
         LET r == fetch_report(cli_config, station_id, net)
         IN  /\ response' = IF r.requests = 0 THEN response ELSE net
             /\ requests' = requests + r.requests
             /\ cli_config' = r.cli_config
             /\ IF r.raised
                THEN pc' = "raised" /\ exc' = r.exc /\ html' = html
                ELSE pc' = "fetched" /\ exc' = exc /\ html' = r.text
    /\ UNCHANGED <<report, station_id, steps, valid, rule, report_date_str,
                   report_date_obj, temp_data, kwargs, cli_data, error, beats, first>>
    /\ UNCHANGED <<publish_vars, scheduler>>

SpecFetch == InitFetch /\ [][FetchReport]_vars

-----------------------------------------------------------------------------
(* cli_operations.py: get_climate_data *)

\* get_climate_data(station_id) is about to run; Config() has loaded cli.yaml
InitPipeline ==
    /\ report = <<>>
    /\ station_id \in LocationKeys
    /\ cli_config \in CliConfigs
    /\ html = <<>>
    /\ pc = "fetch"
    /\ FreshCall

\* Mutant of GetClimateData_Fetch: an exception of fetch_report is caught
\* and the function goes on with an empty text.
GetClimateData_Fetch_Swallow ==
    /\ pc = "fetch"
    /\ steps' = Append(steps, "fetch")
    /\ \E net \in PipelineResults :
         LET r == fetch_report(cli_config, station_id, net)
         IN  /\ response' = IF r.requests = 0 THEN response ELSE net
             /\ requests' = requests + r.requests
             /\ cli_config' = r.cli_config
             /\ pc' = "extract"
             /\ exc' = exc
             /\ html' = r.text
    /\ UNCHANGED <<report, station_id, valid, rule, report_date_str,
                   report_date_obj, temp_data, kwargs, cli_data, error, beats, first>>
    /\ UNCHANGED <<publish_vars, scheduler>>

\* get_climate_data, line 33: html_content = scraper.fetch_report(location_key)
GetClimateData_Fetch ==
    /\ pc = "fetch"
    /\ steps' = Append(steps, "fetch")
    /\ \E net \in PipelineResults :
         LET r == fetch_report(cli_config, station_id, net)
         IN  /\ response' = IF r.requests = 0 THEN response ELSE net
             /\ requests' = requests + r.requests
             /\ cli_config' = r.cli_config
             /\ IF r.raised
                THEN pc' = "raised" /\ exc' = r.exc /\ html' = html
                ELSE pc' = "extract" /\ exc' = exc /\ html' = r.text
    /\ UNCHANGED <<report, station_id, valid, rule, report_date_str,
                   report_date_obj, temp_data, kwargs, cli_data, error, beats, first>>
    /\ UNCHANGED <<publish_vars, scheduler>>

\* get_climate_data, line 36: report_content = parser.extract_report_content(...);
\* line 39 then hands report_content and location_key to parse_report
GetClimateData_Extract ==
    /\ pc = "extract"
    /\ steps' = Append(steps, "extract")
    /\ LET r == extract_report_content(html)
       IN  IF r.raised
           THEN /\ pc' = "raised"
                /\ error' = "ValueError: Could not find CLI report content in the HTML"
                /\ report' = report
           ELSE /\ pc' = "validate"
                /\ error' = error
                /\ report' = r.text
    /\ UNCHANGED <<station_id, valid, rule, report_date_str, report_date_obj,
                   temp_data, kwargs, cli_data, beats, fetch_vars, first>>
    /\ UNCHANGED <<publish_vars, scheduler>>

\* parse_report's steps follow; get_climate_data returns the record at "parsed"
NextPipeline ==
    \/ GetClimateData_Fetch
    \/ GetClimateData_Extract
    \/ Validate
    \/ ExtractDate
    \/ ParseTemperature
    \/ Construct
    \/ ParsePrecipitation
    \/ ParseHumidity
    \/ ParseWind

SpecPipeline == InitPipeline /\ [][NextPipeline]_vars

-----------------------------------------------------------------------------
(* build_url called again and again on one scraper *)

\* CLIScraper(cli_config) has been constructed
InitBuildUrl ==
    /\ report = <<>>
    /\ station_id = "KNYC"
    /\ cli_config \in CliConfigs \cup {CliConfigTwo}
    /\ html = <<>>
    /\ pc = "scraper"
    /\ FreshCall

\* build_url(location_key); steps keeps the calls and what they returned
BuildUrl ==
    /\ pc = "scraper"
    /\ Len(steps) < MaxCalls
    /\ \E location_key \in {"KNYC", "KLGA", "KXXX"} :
         LET r == build_url(cli_config, location_key)
         IN  /\ station_id' = location_key
             /\ cli_config' = r.cli_config
             /\ steps' = Append(steps, [location_key |-> location_key,
                                        raised |-> r.raised, url |-> r.url])
    /\ UNCHANGED <<response, html, requests, exc, first>>
    /\ UNCHANGED <<publish_vars, scheduler>>
    /\ UNCHANGED <<report, pc, valid, rule, report_date_str, report_date_obj,
                   temp_data, kwargs, cli_data, error, beats>>

SpecBuildUrl == InitBuildUrl /\ [][BuildUrl]_vars

-----------------------------------------------------------------------------
(* publish_beats_to_kafka called on its own *)

publish_frame ==
    <<report, station_id, steps, valid, rule, report_date_str, report_date_obj,
      temp_data, kwargs, cli_data, fetch_vars, first>>

\* publish_beats_to_kafka(beats, topic) is about to run
InitPublish ==
    /\ report = <<>>
    /\ station_id = "KNYC"
    /\ cli_config = CliConfigNamed
    /\ html = <<>>
    /\ steps = <<>>
    /\ valid = FALSE
    /\ rule = 0
    /\ report_date_str = NoneText
    /\ report_date_obj = NoneDT
    /\ temp_data = NoTempData
    /\ kwargs = NoArgs
    /\ cli_data = NoCLIData
    /\ error = ""
    /\ response = NoResponse
    /\ requests = 0
    /\ exc = NoException
    /\ first = NoFirst
    /\ scheduler = NoScheduler
    /\ beats \in BeatLists
    /\ topic \in {"observations", "test_topic"}
    /\ producer = NoProducer
    /\ count = 0
    /\ pc = "publish"

\* producer = ObservationProducer(); count = 0
Publish_Create ==
    /\ pc = "publish"
    /\ producer' = [NoProducer EXCEPT !.created = TRUE]
    /\ count' = 0
    /\ pc' = "send"
    /\ UNCHANGED <<publish_frame, beats, topic, error, scheduler>>

\* One turn of the loop: producer.send_beat(beat, topic=topic); count += 1.
\* An exception leaves through the finally clause, which closes the producer.
Publish_Send ==
    /\ pc = "send"
    /\ count < Len(beats)
    /\ \E delivered \in BOOLEAN :
         LET beat == beats[count + 1]
             call == BindCall(SendBeatParams, SendBeatRequired,
                              SendBeatPositional, SendBeatKeywords)
             to == IF call.args["topic"] = "topic" THEN topic ELSE "<beat>"
         IN  IF call.raised
             THEN /\ error' = "TypeError: send_beat() got multiple values for argument 'topic'"
                  /\ producer' = [producer EXCEPT !.closed = TRUE]
                  /\ pc' = "raised"
                  /\ count' = count
             ELSE IF ~delivered
             THEN /\ error' = "KafkaError"
                  /\ producer' = [producer EXCEPT !.closed = TRUE]
                  /\ pc' = "raised"
                  /\ count' = count
             ELSE /\ producer' =
                       [producer EXCEPT
                          !.sent = Append(@, [topic |-> to, value |-> beat])]
                  /\ count' = count + 1
                  /\ UNCHANGED <<pc, error>>
    /\ UNCHANGED <<publish_frame, beats, topic, scheduler>>

\* After the loop: producer.producer.flush(); return count; finally close()
Publish_Flush ==
    /\ pc = "send"
    /\ count = Len(beats)
    /\ producer' = [producer EXCEPT !.flushes = Append(@, Len(producer.sent)),
                                    !.closed = TRUE]
    /\ pc' = "published"
    /\ UNCHANGED <<publish_frame, beats, topic, count, error, scheduler>>

NextPublish ==
    \/ Publish_Create
    \/ Publish_Send
    \/ Publish_Flush

SpecPublish == InitPublish /\ [][NextPublish]_vars

-----------------------------------------------------------------------------
(* scheduler.py: start() and the job it registers *)

\* start() is about to be called
InitScheduler ==
    /\ report = <<>>
    /\ station_id = "KNYC"
    /\ cli_config \in CliConfigs
    /\ html = <<>>
    /\ pc = "start"
    /\ FreshCall

\* schedule.every().day.at("10:00", "UTC").do(...), called at hour h: the
\* first run is the next 10:00 UTC
Scheduler_Start ==
    /\ pc = "start"
    /\ \E h \in 0..23 :
         scheduler' = [NoScheduler EXCEPT
                         !.started = TRUE, !.since = h, !.now = h,
                         !.next_run = IF h < 10 THEN 10 ELSE 34]
    /\ pc' = "loop"
    /\ UNCHANGED <<fetch_vars, first, publish_vars>>
    /\ UNCHANGED <<report, station_id, steps, valid, rule, report_date_str,
                   report_date_obj, temp_data, kwargs, cli_data, error, beats>>

\* One turn of the loop, the turns of an hour taken as one: when the job is
\* not due schedule.run_pending() does nothing and time.sleep lets the clock
\* go on; when it is due run_pending calls
\* get_and_publish_kafka_beats(location_key="KNYC", topic="observations"),
\* which loads the configuration and starts get_climate_data afresh.
Scheduler_Loop ==
    /\ pc = "loop"
    /\ scheduler.now < 24 * MaxDays
    /\ IF scheduler.now < scheduler.next_run
       THEN /\ scheduler' = [scheduler EXCEPT !.now = @ + 1]
            /\ UNCHANGED <<pc, station_id, topic, cli_config>>
       ELSE /\ pc' = "fetch"
            /\ station_id' = "KNYC"
            /\ topic' = "observations"
            /\ cli_config' \in CliConfigs
            /\ scheduler' = scheduler
    /\ report' = <<>>
    /\ html' = <<>>
    /\ response' = NoResponse
    /\ exc' = NoException
    /\ steps' = <<>>
    /\ valid' = FALSE
    /\ rule' = 0
    /\ report_date_str' = NoneText
    /\ report_date_obj' = NoneDT
    /\ temp_data' = NoTempData
    /\ kwargs' = NoArgs
    /\ cli_data' = NoCLIData
    /\ error' = ""
    /\ beats' = <<>>
    /\ producer' = NoProducer
    /\ count' = 0
    /\ UNCHANGED <<requests, first>>

\* The job is over.  schedule.run_pending() lets an exception of the job
\* through and start() does not catch it, so it ends start(); a record that
\* was parsed goes through format_kafka_beats and publish_beats_to_kafka
\* (delivered: the Kafka producer takes the beats), and only when that
\* returns is the job set for the next day and the loop goes on.
Scheduler_JobDone ==
    /\ scheduler.started
    /\ pc \in {"parsed", "raised"}
    /\ IF pc = "raised"
       THEN /\ error' = IF error # "" THEN error ELSE exc.type
            /\ scheduler' =
                 [scheduler EXCEPT
                    !.runs = Append(@, [at |-> scheduler.now,
                                        error |-> IF error # "" THEN error ELSE exc.type]),
                    !.exited = TRUE]
            /\ pc' = "exited"
            /\ UNCHANGED <<beats, producer, count>>
       ELSE \E delivered \in BOOLEAN :
              LET kafka_beats == format_kafka_beats(cli_data.v)
                  call == BindCall(SendBeatParams, SendBeatRequired,
                                   SendBeatPositional, SendBeatKeywords)
                  failure ==
                      IF kafka_beats = <<>> THEN ""
                      ELSE IF call.raised
                      THEN "TypeError: send_beat() got multiple values for argument 'topic'"
                      ELSE IF ~delivered THEN "KafkaError"
                      ELSE ""
              IN  /\ beats' = kafka_beats
                  /\ error' = failure
                  /\ IF failure # ""
                     THEN /\ producer' = [NoProducer EXCEPT !.created = TRUE,
                                                           !.closed = TRUE]
                          /\ count' = 0
                          /\ scheduler' =
                               [scheduler EXCEPT
                                  !.runs = Append(@, [at |-> scheduler.now,
                                                      error |-> failure]),
                                  !.exited = TRUE]
                          /\ pc' = "exited"
                     ELSE /\ producer' =
                               [created |-> TRUE,
                                sent |-> [i \in 1..Len(kafka_beats) |->
                                            [topic |-> topic, value |-> kafka_beats[i]]],
                                flushes |-> <<Len(kafka_beats)>>,
                                closed |-> TRUE]
                          /\ count' = Len(kafka_beats)
                          /\ scheduler' =
                               [scheduler EXCEPT
                                  !.runs = Append(@, [at |-> scheduler.now, error |-> ""]),
                                  !.next_run = @ + 24,
                                  !.now = @ + 1]
                          /\ pc' = "loop"
    /\ UNCHANGED <<report, station_id, steps, valid, rule, report_date_str,
                   report_date_obj, temp_data, kwargs, cli_data, fetch_vars, first,
                   topic>>

NextScheduler ==
    \/ Scheduler_Start
    \/ Scheduler_Loop
    \/ GetClimateData_Fetch
    \/ GetClimateData_Extract
    \/ Validate
    \/ ExtractDate
    \/ ParseTemperature
    \/ Construct
    \/ ParsePrecipitation
    \/ ParseHumidity
    \/ ParseWind
    \/ Scheduler_JobDone

SpecScheduler == InitScheduler /\ [][NextScheduler]_vars

-----------------------------------------------------------------------------
(* Properties of parse_report and format_kafka_beats *)

Returned == pc \in {"parsed", "formatted"}

Presence(b) == IF b THEN 1 ELSE 0

MissingTemperature ==
    "ValueError: Could not extract required temperature data from the report"

\* The bulletin of test_parse_report_missing_optional_data: a summary line
\* and the YESTERDAY temperature section only.
MinimalBulletin ==
    <<Summary("APRIL", 17, 2025)>>
      \o TempSection(HDR_NL, "YESTERDAY", I(64), 341, "PM", I(42), 542, "AM", I(53))

\* C1: for every bulletin parse_report accepts, format_kafka_beats returns
\* 3 + presence(precipitation) + presence(humidity) + presence(wind)
\* observations, a presence being 1 exactly when that section was matched in
\* the text; the precipitation observation is emitted only if a precipitation
\* value was found in the text.  Stated for the bulletins that carry a
\* reference date, the ones the end-of-day observations are derived for.
C1_CountInvariant ==
    (pc = "formatted" /\ cli_data.v.report_datetime.some) =>
        /\ Len(beats) = 3 + Presence(parse_precipitation(report).some)
                          + Presence(parse_humidity(report).some)
                          + Presence(parse_wind(report).kind = "ok")
        /\ (\E i \in 1..Len(beats) : beats[i].measurement_type = "precipitation")
              => parse_precipitation(report).some

\* C2: the minimal bulletin (reference date and YESTERDAY temperature section
\* only) parses, its record has no humidity and no wind and precipitation 0.0,
\* and exactly 3 observations are derived from it.
C2_MinimalBulletin ==
    report = MinimalBulletin =>
        /\ pc # "raised"
        /\ Returned =>
              /\ ~cli_data.v.humidity_highest.some
              /\ ~cli_data.v.humidity_lowest.some
              /\ ~cli_data.v.humidity_avg.some
              /\ ~cli_data.v.wind_highest_speed.some
              /\ ~cli_data.v.wind_highest_direction.some
              /\ ~cli_data.v.wind_avg_speed.some
              /\ cli_data.v.precipitation_yesterday = Some(0)
        /\ pc = "formatted" => Len(beats) = 3

\* C3: a bulletin that passes classification and has no matchable YESTERDAY
\* temperature section makes parse_report fail with the missing-temperature
\* error; no record is produced, whatever optional sections are present.
C3_MissingTemperatureFails ==
    (rule # 0 /\ valid /\ TempHSet(report) = {}) =>
        /\ pc \in {"date", "temperature", "raised"}
        /\ ~cli_data.some
        /\ pc = "raised" => error = MissingTemperature

C3_Witness ==
    /\ pc = "raised"
    /\ valid
    /\ TempHSet(report) = {}
    /\ error = MissingTemperature
    /\ parse_precipitation(report).some
    /\ parse_humidity(report).some
    /\ parse_wind(report).kind = "ok"

\* C4: when validate_report_type rejects the text, parse_report fails before
\* the date, temperature, precipitation, humidity or wind step runs, and no
\* record is produced.
C4_RejectStopsParsing ==
    (rule # 0 /\ ~valid) =>
        /\ pc = "raised"
        /\ steps = <<"validate">>
        /\ report_date_str = NoneText
        /\ report_date_obj = NoneDT
        /\ temp_data = NoTempData
        /\ cli_data = NoCLIData
        /\ beats = <<>>

\* A rejected bulletin whose text holds a date, a temperature section and
\* every optional section the extractors would have matched.
C4_Witness ==
    /\ pc = "raised"
    /\ rule # 0
    /\ ~valid
    /\ ~extract_report_date(report).raised
    /\ TempHSet(report) # {}
    /\ parse_precipitation(report).some
    /\ parse_humidity(report).some
    /\ parse_wind(report).kind = "ok"

-----------------------------------------------------------------------------
(* Properties of validate_report_type *)

\* C5: validate_report_type applies its five rules in priority order and the
\* first rule that matches decides: rule 1 accepts whatever else the text
\* holds, rule 2 rejects when rule 1 does not match, rule 3 rejects when
\* neither rule 1 nor rule 2 matches, rule 4 decides when exactly one of its
\* two searches matches, and the fallback decides what is left.
C5_PriorityOrder ==
    pc = "classified" =>
        LET r1 == HeaderThen(report, "YESTERDAY")
            r2 == HeaderThen(report, "TODAY")
            r3 == Contains(report, "VALID TODAY AS OF")
            y4 == HeaderBefore(report, "YESTERDAY")
            t4 == HeaderBefore(report, "TODAY")
        IN  /\ r1 => (rule = 1 /\ valid)
            /\ (~r1 /\ r2) => (rule = 2 /\ ~valid)
            /\ (~r1 /\ ~r2 /\ r3) => (rule = 3 /\ ~valid)
            /\ (~r1 /\ ~r2 /\ ~r3 /\ y4 # t4) => (rule = 4 /\ valid = y4)
            /\ (~r1 /\ ~r2 /\ ~r3 /\ y4 = t4) =>
                  /\ rule = 5
                  /\ valid = (Contains(report, "YESTERDAY")
                                /\ ~Contains(report, "VALID TODAY"))

\* A text that matches rule 1 and also holds the rule-2 literal
C5_Witness ==
    /\ pc = "classified"
    /\ HeaderThen(report, "YESTERDAY")
    /\ HeaderThen(report, "TODAY")
    /\ rule = 1
    /\ valid

\* A YESTERDAY word and a TODAY word both stand after a temperature header
BothMarkersAfterHeader(text) ==
    \E i \in 1..Len(text) : \E j, k \in (i + 1)..Len(text) :
        /\ Holds(text[i], "TEMPERATURE (F)")
        /\ text[j] = W("YESTERDAY")
        /\ text[k] = W("TODAY")

\* C6 as claimed: a text in which a YESTERDAY marker and a TODAY marker both
\* occur after the TEMPERATURE (F) header is decided by one of rules 1 to 4,
\* never by the fallback heuristic.
C6_NeverFallback ==
    (pc = "classified" /\ BothMarkersAfterHeader(report)) => rule \in 1..4

\* C6 as amended: such a text is decided by rule 1, 2 or 3 when one of them
\* matches and by the fallback heuristic otherwise (rule 4 never decides it,
\* both of its searches match); the fallback then accepts exactly when the
\* text does not hold "VALID TODAY".
C6_FallbackWhenUndecided ==
    (pc = "classified" /\ HeaderBefore(report, "YESTERDAY")
        /\ HeaderBefore(report, "TODAY")) =>
        /\ rule \in {1, 2, 3, 5}
        /\ rule = 5 <=> /\ ~HeaderThen(report, "YESTERDAY")
                        /\ ~HeaderThen(report, "TODAY")
                        /\ ~Contains(report, "VALID TODAY AS OF")
        /\ rule = 5 => (valid <=> ~Contains(report, "VALID TODAY"))

C6_Witness ==
    /\ pc = "classified"
    /\ BothMarkersAfterHeader(report)
    /\ rule = 5
    /\ valid

-----------------------------------------------------------------------------
(* Properties of the clock conversion *)

\* The hour the claim gives for an HHMM value and a meridiem
C7_Hour(hhmm, ampm) ==
    LET hour == hhmm \div 100
    IN  IF ampm = "PM" /\ hour < 12 THEN hour + 12
        ELSE IF ampm = "AM" /\ hour = 12 THEN 0
        ELSE hour

C7_Resolves(dt, hhmm, ampm) ==
    /\ dt.hour = C7_Hour(hhmm, ampm)
    /\ dt.minute = hhmm % 100
    /\ (hhmm = 341 /\ ampm = "PM") => (dt.hour = 15 /\ dt.minute = 41)
    /\ (hhmm = 542 /\ ampm = "AM") => (dt.hour = 5 /\ dt.minute = 42)
    /\ (hhmm = 1200 /\ ampm = "AM") => (dt.hour = 0 /\ dt.minute = 0)
    /\ (hhmm = 1200 /\ ampm = "PM") => (dt.hour = 12 /\ dt.minute = 0)

\* C7: the resolved time of the maximum and of the minimum has hour
\* HHMM div 100 and minute HHMM mod 100, with 12 added to the hour for PM
\* below 12 and the hour set to 0 for 12 AM, with and without a report date.
C7_ClockConversion ==
    pc = "resolved" =>
        /\ C7_Resolves(temp_data.v.max_datetime, report[5].n, report[6].s)
        /\ C7_Resolves(temp_data.v.min_datetime, report[9].n, report[10].s)

\* 12:00 AM for the maximum and 3:41 PM for the minimum, with no report date
C7_Witness ==
    /\ pc = "resolved"
    /\ ~report_date_obj.some
    /\ report[5].n = 1200 /\ report[6].s = "AM"
    /\ report[9].n = 341 /\ report[10].s = "PM"
    /\ temp_data.v.max_datetime.hour = 0
    /\ temp_data.v.min_datetime.hour = 15
    /\ temp_data.v.min_datetime.minute = 41

-----------------------------------------------------------------------------
(* Properties of record validation *)

InTemperatureRange(v) == v \in -150..150

\* C8: every record parse_report returns has its three temperatures present
\* and within -150..150; a bulletin whose extracted temperature lies outside
\* that range yields an error and no record.
C8_TemperatureRange ==
    /\ cli_data.some =>
          /\ kwargs.temperature_max.some
          /\ kwargs.temperature_min.some
          /\ kwargs.temperature_avg.some
          /\ InTemperatureRange(cli_data.v.temperature_max)
          /\ InTemperatureRange(cli_data.v.temperature_min)
          /\ InTemperatureRange(cli_data.v.temperature_avg)
    /\ (/\ temp_data.some
        /\ pc # "construct"
        /\ \/ ~InTemperatureRange(temp_data.v.max)
           \/ ~InTemperatureRange(temp_data.v.min)
           \/ ~InTemperatureRange(temp_data.v.avg)) =>
          /\ pc = "raised"
          /\ error = "ValidationError"
          /\ ~cli_data.some

C8_Witness ==
    /\ pc = "raised"
    /\ error = "ValidationError"
    /\ temp_data.some
    /\ temp_data.v.avg = 151
    /\ ~cli_data.some

OptionalInRange(cd) ==
    /\ \A f \in {"humidity_highest", "humidity_lowest", "humidity_avg"} :
          cd[f].some => cd[f].v \in 0..100
    /\ cd.precipitation_yesterday.some => cd.precipitation_yesterday.v >= 0
    /\ \A f \in {"wind_highest_speed", "wind_avg_speed"} : cd[f].some => cd[f].v >= 0

\* C9: every record parse_report returns has its humidity values within
\* 0..100 and its precipitation and wind speeds at least 0; a bulletin
\* carrying an out-of-range optional value makes parse_report fail with a
\* validation error.
C9_OptionalRanges ==
    Returned =>
        /\ OptionalInRange(cli_data.v)
        /\ ~(parse_humidity(report).some /\ parse_humidity(report).highest > 100)

\* Arguments the claim says the constructor rejects
BadArgs(kw) ==
    \/ \E f \in {"temperature_max", "temperature_min", "temperature_avg"} :
          kw[f].some /\ ~InTemperatureRange(kw[f].v)
    \/ \E f \in {"humidity_highest", "humidity_lowest", "humidity_avg"} :
          kw[f].some /\ kw[f].v \notin 0..100
    \/ kw.precipitation_yesterday.some /\ kw.precipitation_yesterday.v < 0

\* C10: constructing a CLIData with a temperature outside -150..150, a
\* humidity outside 0..100 or a negative precipitation fails with a
\* validation error and creates no record.
C10_ConstructorValidates ==
    (pc # "new" /\ BadArgs(kwargs)) =>
        /\ pc = "raised"
        /\ error = "ValidationError"
        /\ ~cli_data.some

\* humidity_avg=120 with every other argument valid
C10_Witness ==
    /\ pc = "raised"
    /\ kwargs = [GoodArgs EXCEPT !.humidity_avg = Some(120)]
    /\ ~cli_data.some

-----------------------------------------------------------------------------
(* Properties of the record after construction *)

ConstructorFieldNames ==
    {"report_date", "report_datetime", "station_id", "temperature_max",
     "temperature_min", "temperature_avg", "temperature_max_time",
     "temperature_min_time", "temperature_max_datetime", "temperature_min_datetime"}

HumidityFieldNames == {"humidity_highest", "humidity_lowest", "humidity_avg"}

WindFieldNames == {"wind_highest_speed", "wind_highest_direction", "wind_avg_speed"}

-----------------------------------------------------------------------------
(* Properties of the derived observations *)

DigitChars == {"0", "1", "2", "3", "4", "5", "6", "7", "8", "9"}

DigitValue(c) == CHOOSE d \in 0..9 : Digit(d) = c

RECURSIVE Numeral(_)
\* The number a sequence of digit characters denotes
Numeral(chars) ==
    IF chars = <<>> THEN 0
    ELSE 10 * Numeral(SubSeq(chars, 1, Len(chars) - 1)) + DigitValue(chars[Len(chars)])

\* t reads YYYY-MM-DDTHH:MM:SSZ and denotes the date and time of dt
Renders(t, dt) ==
    /\ Len(t) = 20
    /\ \A i \in {1, 2, 3, 4, 6, 7, 9, 10, 12, 13, 15, 16, 18, 19} : t[i] \in DigitChars
    /\ t[5] = "-" /\ t[8] = "-" /\ t[11] = "T"
    /\ t[14] = ":" /\ t[17] = ":" /\ t[20] = "Z"
    /\ Numeral(SubSeq(t, 1, 4)) = dt.year
    /\ Numeral(SubSeq(t, 6, 7)) = dt.month
    /\ Numeral(SubSeq(t, 9, 10)) = dt.day
    /\ Numeral(SubSeq(t, 12, 13)) = dt.hour
    /\ Numeral(SubSeq(t, 15, 16)) = dt.minute
    /\ Numeral(SubSeq(t, 18, 19)) = dt.second

BeatsOf(measurement_type, observation_type) ==
    {i \in 1..Len(beats) :
        /\ beats[i].measurement_type = measurement_type
        /\ beats[i].observation_type = observation_type}

\* 23:59:59 of the record's reference date
EndOfReferenceDate ==
    DT(cli_data.v.report_datetime.v.year, cli_data.v.report_datetime.v.month,
       cli_data.v.report_datetime.v.day, 23, 59, 59)

\* C12: for every record with a reference date, the temperature-average,
\* precipitation-total and humidity-average observations carry period
\* "daily", the wind-max-speed observation carries no period, and all four
\* carry the timestamp YYYY-MM-DDT23:59:59Z of the reference date.
C12_EndOfDayObservations ==
    (pc = "formatted" /\ cli_data.v.report_datetime.some) =>
        /\ BeatsOf("temperature", "average") # {}
        /\ \A i \in BeatsOf("temperature", "average") \cup BeatsOf("precipitation", "total")
                    \cup BeatsOf("humidity", "average") :
              /\ beats[i].period = Some("daily")
              /\ Renders(beats[i].timestamp, EndOfReferenceDate)
        /\ \A i \in BeatsOf("wind_speed", "max") :
              /\ beats[i].period = NoneStr
              /\ Renders(beats[i].timestamp, EndOfReferenceDate)

\* All four end-of-day observations were derived for 5 December 2024.
C12_Witness ==
    /\ pc = "formatted"
    /\ cli_data.v.report_datetime = Some(DT(2024, 12, 5, 0, 0, 0))
    /\ BeatsOf("temperature", "average") # {}
    /\ BeatsOf("precipitation", "total") # {}
    /\ BeatsOf("humidity", "average") # {}
    /\ \E i \in BeatsOf("wind_speed", "max") :
          beats[i].timestamp = <<"2", "0", "2", "4", "-", "1", "2", "-", "0", "5", "T",
                                 "2", "3", ":", "5", "9", ":", "5", "9", "Z">>

\* "3:41 PM", "5:42 AM", "2025-04-17T15:41:00Z" and "2025-04-17T05:42:00Z"
Clock_341PM == <<"3", ":", "4", "1", " ", "P", "M">>
Clock_542AM == <<"5", ":", "4", "2", " ", "A", "M">>
Stamp_1541 ==
    <<"2", "0", "2", "5", "-", "0", "4", "-", "1", "7", "T",
      "1", "5", ":", "4", "1", ":", "0", "0", "Z">>
Stamp_0542 ==
    <<"2", "0", "2", "5", "-", "0", "4", "-", "1", "7", "T",
      "0", "5", ":", "4", "2", ":", "0", "0", "Z">>

\* The record of the example: max 64 at 3:41 PM, min 42 at 5:42 AM, 2025-04-17
ExampleRecord ==
    /\ cli_data.v.report_datetime = Some(DT(2025, 4, 17, 0, 0, 0))
    /\ cli_data.v.temperature_max = 64
    /\ cli_data.v.temperature_max_time = Clock_341PM
    /\ cli_data.v.temperature_min = 42
    /\ cli_data.v.temperature_min_time = Clock_542AM

\* C13: for every record, the temperature-max observation has the record's
\* temperature_max as value, unit F, no period and the timestamp
\* temperature_max_datetime rendered as YYYY-MM-DDTHH:MM:SSZ, and the
\* temperature-min observation likewise with temperature_min and
\* temperature_min_datetime; for max 64 at 3:41 PM and min 42 at 5:42 AM on
\* 2025-04-17 the timestamps are 2025-04-17T15:41:00Z and
\* 2025-04-17T05:42:00Z.
C13_InstantaneousObservations ==
    pc = "formatted" =>
        /\ Cardinality(BeatsOf("temperature", "max")) = 1
        /\ Cardinality(BeatsOf("temperature", "min")) = 1
        /\ \A i \in BeatsOf("temperature", "max") :
              /\ beats[i].value = cli_data.v.temperature_max
              /\ beats[i].unit = "F"
              /\ beats[i].period = NoneStr
              /\ Renders(beats[i].timestamp, cli_data.v.temperature_max_datetime)
              /\ ExampleRecord => beats[i].timestamp = Stamp_1541
        /\ \A i \in BeatsOf("temperature", "min") :
              /\ beats[i].value = cli_data.v.temperature_min
              /\ beats[i].unit = "F"
              /\ beats[i].period = NoneStr
              /\ Renders(beats[i].timestamp, cli_data.v.temperature_min_datetime)
              /\ ExampleRecord => beats[i].timestamp = Stamp_0542

C13_Witness ==
    /\ pc = "formatted"
    /\ ExampleRecord
    /\ \E i \in BeatsOf("temperature", "max") :
          beats[i].value = 64 /\ beats[i].timestamp = Stamp_1541
    /\ \E i \in BeatsOf("temperature", "min") :
          beats[i].value = 42 /\ beats[i].timestamp = Stamp_0542

\* C14: for every record whose reference date is absent, format_kafka_beats
\* returns exactly two observations, the temperature max and the temperature
\* min in that order, and no average, precipitation, humidity or wind
\* observation, whatever optional fields the record carries.
C14_NoReferenceDate ==
    (pc = "formatted" /\ ~cli_data.v.report_datetime.some) =>
        /\ Len(beats) = 2
        /\ beats[1].measurement_type = "temperature"
        /\ beats[1].observation_type = "max"
        /\ beats[2].measurement_type = "temperature"
        /\ beats[2].observation_type = "min"
        /\ BeatsOf("temperature", "average") = {}
        /\ \A i \in 1..Len(beats) :
              beats[i].measurement_type \notin {"precipitation", "humidity", "wind_speed"}

\* A record without reference date that carries precipitation, humidity
\* and wind
C14_Witness ==
    /\ pc = "formatted"
    /\ ~cli_data.v.report_datetime.some
    /\ cli_data.v.precipitation_yesterday = Some(25)
    /\ cli_data.v.humidity_avg = Some(35)
    /\ cli_data.v.wind_highest_speed = Some(17)
    /\ Len(beats) = 2

-----------------------------------------------------------------------------
(* Properties of parse_report on bulletins without a usable summary line *)

\* dt has the date of now and the clock time the bulletin gives as hhmm ampm
OnProcessingDate(dt, now, hhmm, ampm) ==
    /\ dt.year = now.year /\ dt.month = now.month /\ dt.day = now.day
    /\ C7_Resolves(dt, hhmm, ampm)
    /\ dt.second = 0

\* C15: when no reference date can be extracted from an accepted bulletin
\* (summary line missing or unparsable), parse_report does not fail for that
\* reason: a failure is a temperature, validation or wind failure the text
\* itself causes, and a returned record has no report date, no reference
\* date, and max and min timestamps that combine the resolved clock times
\* with the current processing date.
C15_DateFallback ==
    (rule # 0 /\ valid /\ extract_report_date(report).raised /\ pc # "date") =>
        /\ report_date_str = NoneText
        /\ report_date_obj = NoneDT
        /\ pc = "raised" =>
              \/ error = MissingTemperature /\ TempHSet(report) = {}
              \/ /\ error = "ValueError: datetime field out of range"
                 /\ TempMatch(report).max_time_hour \div 100 > 23
              \/ /\ error = "ValidationError"
                 /\ \/ ~InTemperatureRange(temp_data.v.max)
                    \/ ~InTemperatureRange(temp_data.v.min)
                    \/ ~InTemperatureRange(temp_data.v.avg)
              \/ /\ error = "ValueError: could not convert string to float"
                 /\ parse_wind(report).kind = "raise"
        /\ Returned =>
              /\ cli_data.v.report_date = NoneText
              /\ cli_data.v.report_datetime = NoneDT
              /\ \E now \in NowDates :
                    /\ OnProcessingDate(cli_data.v.temperature_max_datetime, now,
                                        TempMatch(report).max_time_hour,
                                        TempMatch(report).max_time_ampm)
                    /\ OnProcessingDate(cli_data.v.temperature_min_datetime, now,
                                        TempMatch(report).min_time_hour,
                                        TempMatch(report).min_time_ampm)

\* A record returned for a bulletin whose summary line names 31 April, with
\* its timestamps on the processing date 1 January 2026
C15_Witness ==
    /\ Returned
    /\ \E i \in 1..Len(report) : report[i] = Summary("APRIL", 31, 2025)
    /\ cli_data.v.report_date = NoneText
    /\ cli_data.v.report_datetime = NoneDT
    /\ cli_data.v.temperature_max_datetime = DT(2026, 1, 1, 15, 41, 0)
    /\ cli_data.v.temperature_min_datetime = DT(2026, 1, 1, 5, 42, 0)

-----------------------------------------------------------------------------
(* Properties of extract_report_content *)

\* The positions of the pre elements of class glossaryProduct in html
ReportBlocks ==
    {i \in 1..Len(html) :
        html[i].tag \in {"pre", "PRE"} /\ "glossaryProduct" \in html[i].class}

\* C16: extract_report_content returns the text of the pre element of class
\* glossaryProduct; if the HTML holds more than one such element the first
\* is used, and if it holds none the call fails with the "Could not find CLI
\* report content" error and returns no text.
C16_FirstReportBlock ==
    pc # "extract" =>
        /\ pc = "raised" <=> ReportBlocks = {}
        /\ pc = "raised" =>
              /\ error = "ValueError: Could not find CLI report content in the HTML"
              /\ report = <<>>
        /\ pc = "extracted" =>
              \E i \in ReportBlocks :
                  /\ \A j \in ReportBlocks : i <= j
                  /\ report = html[i].text

\* Two report blocks with different texts, a pre of another class before
\* them; the text of the first report block was returned.
C16_Witness ==
    /\ pc = "extracted"
    /\ Len(html) = 3
    /\ ReportBlocks = {2, 3}
    /\ html[1].tag = "pre"
    /\ html[2].text # html[3].text
    /\ report = html[2].text

-----------------------------------------------------------------------------
(* Properties of the optional extractors inside parse_report *)

PrecipitationMisses == ~parse_precipitation(report).some
HumidityMisses == ~parse_humidity(report).some
WindMisses == parse_wind(report).kind = "none"

\* C17: for every accepted bulletin whose temperature section was parsed
\* into a record, a precipitation, humidity or wind extractor that fails to
\* match never raises and never makes parse_report fail: its fields are left
\* absent (precipitation at its default 0.0) and a record is returned.  The
\* one failure parse_report has after construction comes from a wind
\* section that does match.
C17_OptionalMisses ==
    (rule # 0 /\ valid /\ cli_data.some) =>
        /\ pc = "raised" =>
              /\ error = "ValueError: could not convert string to float"
              /\ ~WindMisses
              /\ steps[Len(steps)] = "wind"
        /\ (PrecipitationMisses /\ HumidityMisses /\ WindMisses) => pc # "raised"
        /\ Returned =>
              /\ PrecipitationMisses => cli_data.v.precipitation_yesterday = Some(0)
              /\ HumidityMisses =>
                    \A f \in HumidityFieldNames : cli_data.v[f] = NoneInt
              /\ WindMisses =>
                    /\ cli_data.v.wind_highest_speed = NoneInt
                    /\ cli_data.v.wind_highest_direction = NoneStr
                    /\ cli_data.v.wind_avg_speed = NoneInt

\* A record returned for a bulletin with no precipitation section, a
\* humidity section without its AVERAGE line and a wind section whose
\* highest speed reads MM
C17_Witness ==
    /\ pc = "parsed"
    /\ PrecipitationMisses
    /\ HumidityMisses
    /\ WindMisses
    /\ \E i \in 1..Len(report) : report[i] = W("RELATIVE HUMIDITY (PERCENT)")
    /\ \E i \in 1..Len(report) : report[i] = W("WIND (MPH)")
    /\ cli_data.v.precipitation_yesterday = Some(0)
    /\ cli_data.v.humidity_highest = NoneInt
    /\ cli_data.v.wind_highest_speed = NoneInt

-----------------------------------------------------------------------------
(* Properties of two invocations on the same text *)

BothDone == first.set /\ pc \in {"formatted", "raised"}

SameOutcome == first.pc = pc /\ first.error = error

\* The time of day of a rendered timestamp: the characters after the date
TimeOfDay(timestamp) == SubSeq(timestamp, 11, Len(timestamp))

TimeOf(dt) == <<dt.hour, dt.minute, dt.second>>

\* C18: two invocations of parse_report followed by format_kafka_beats on
\* the same report text and station identifier yield equal records and
\* equal observation lists, regardless of when each invocation runs and of
\* any earlier invocation.
C18_Deterministic ==
    BothDone =>
        /\ SameOutcome
        /\ pc = "formatted" => (first.cli_data = cli_data /\ first.beats = beats)

\* C18 as amended: the two invocations end alike; when the text yields a
\* reference date the records and the observation lists are equal; when it
\* does not, they are equal but for the date of the max and min timestamps
\* and of the two observations rendered from them.
C18_DeterministicGivenDate ==
    BothDone =>
        /\ SameOutcome
        /\ (pc = "formatted" /\ ~extract_report_date(report).raised) =>
              (first.cli_data = cli_data /\ first.beats = beats)
        /\ (pc = "formatted" /\ extract_report_date(report).raised) =>
              /\ [first.cli_data.v EXCEPT
                     !.temperature_max_datetime = TimeOf(@),
                     !.temperature_min_datetime = TimeOf(@)]
                   = [cli_data.v EXCEPT
                        !.temperature_max_datetime = TimeOf(@),
                        !.temperature_min_datetime = TimeOf(@)]
              /\ Len(first.beats) = Len(beats)
              /\ \A i \in 1..Len(beats) :
                    [first.beats[i] EXCEPT !.timestamp = TimeOfDay(@)]
                      = [beats[i] EXCEPT !.timestamp = TimeOfDay(@)]

\* Two invocations on a bulletin for 17 April 2025 with every section, both
\* ended with the same six observations.
C18_Witness ==
    /\ first.set
    /\ pc = "formatted"
    /\ first.pc = "formatted"
    /\ cli_data.v.report_datetime = Some(DT(2025, 4, 17, 0, 0, 0))
    /\ Len(beats) = 6
    /\ first.beats = beats
    /\ first.cli_data = cli_data

-----------------------------------------------------------------------------
(* Properties of fetch_report *)

\* The text is empty or white space only
Blank(text) == \A i \in 1..Len(text) : text[i] = WS

\* Message parts that contain the given phrase
PartsHolding(phrase) ==
    IF phrase = "Error fetching CLI report" THEN {"Error fetching CLI report for "}
    ELSE IF phrase = "Empty response received" THEN {"Empty response received from "}
    ELSE {phrase}

MessageHolds(msg, phrase) == \E i \in 1..Len(msg) : msg[i] \in PartsHolding(phrase)

\* What the claim says of a call that issued its request
FetchOutcome ==
    /\ requests = 1
    /\ response.kind \in {"ConnectionError", "Timeout", "HTTPError"} =>
          /\ pc = "raised"
          /\ exc.type = "RequestException"
          /\ MessageHolds(exc.msg, "Error fetching CLI report")
          /\ \A i \in 1..Len(response.msg) : MessageHolds(exc.msg, response.msg[i])
    /\ (response.kind = "ok" /\ Blank(response.text)) =>
          /\ pc = "raised"
          /\ exc.type = "ValueError"
          /\ MessageHolds(exc.msg, "Empty response received")
    /\ (response.kind = "ok" /\ ~Blank(response.text)) =>
          /\ pc = "fetched"
          /\ exc = NoException
          /\ html = response.text
    /\ response.kind \in {"ConnectionError", "Timeout", "HTTPError", "ok"}

\* C20: fetch_report issues exactly one request per call: a connection,
\* timeout or HTTP-status failure is re-raised as a request error whose
\* message contains "Error fetching CLI report" and the original message; a
\* successful response whose body is empty or white space only raises an
\* "Empty response received" value error; otherwise the response text is
\* returned unchanged.
C20_OneRequest == pc # "fetch" => FetchOutcome

\* C20 as amended: the above for a location key the configuration holds;
\* for any other key the call raises KeyError and issues no request.
C20_OneRequestWhenConfigured ==
    pc # "fetch" =>
        IF station_id \in {cli_config.locations[i][1] : i \in 1..Len(cli_config.locations)}
        THEN FetchOutcome
        ELSE /\ requests = 0
             /\ response = NoResponse
             /\ pc = "raised"
             /\ exc.type = "KeyError"
             /\ html = <<>>

\* A text with white space before and after the report block came back as
\* it was sent, after one request.
C20_Witness ==
    /\ pc = "fetched"
    /\ requests = 1
    /\ Len(html) = 3
    /\ html[1] = WS
    /\ html[2] = Node("pre", {"glossaryProduct"}, ReportTextA)
    /\ html[3] = WS
    /\ html = response.text

-----------------------------------------------------------------------------
(* Properties of get_climate_data *)

PipelineOrder ==
    <<"fetch", "extract", "validate", "date", "temperature", "construct",
      "precipitation", "humidity", "wind">>

\* The errors parse_report raises
ParseReportErrors ==
    {"ValueError: The CLI report does not contain yesterday's weather data.",
     MissingTemperature, "ValueError: datetime field out of range",
     "ValidationError", "ValueError: could not convert string to float"}

\* C19: get_climate_data runs fetch, then extract, then parse, in that
\* order; an error raised by the fetch step or by the parse step reaches the
\* caller unchanged, no later step runs after the failing one, no record is
\* returned, and nothing is retried.
C19_FetchExtractParse ==
    /\ Len(steps) <= Len(PipelineOrder)
    /\ steps = SubSeq(PipelineOrder, 1, Len(steps))
    /\ requests <= 1
    /\ (error # "" \/ exc # NoException) => pc = "raised"
    /\ pc # "fetch" =>
          /\ fetch_report(cli_config, station_id, response).raised
                <=> (pc = "raised" /\ steps = <<"fetch">>)
          /\ (pc = "raised" /\ steps = <<"fetch">>) =>
                /\ exc = fetch_report(cli_config, station_id, response).exc
                /\ error = ""
                /\ html = <<>>
                /\ report = <<>>
                /\ rule = 0
                /\ ~cli_data.some
    /\ (pc = "raised" /\ Len(steps) >= 3) =>
          /\ exc = NoException
          /\ error \in ParseReportErrors
          /\ ~validate_report_type(report) =>
                /\ steps = SubSeq(PipelineOrder, 1, 3)
                /\ error = "ValueError: The CLI report does not contain yesterday's weather data."
          /\ (validate_report_type(report) /\ TempHSet(report) = {}) =>
                /\ steps = SubSeq(PipelineOrder, 1, 5)
                /\ error = MissingTemperature
    /\ pc = "parsed" =>
          /\ steps = PipelineOrder
          /\ requests = 1
          /\ error = ""
          /\ exc = NoException
          /\ cli_data.some

\* The connection failed: the request error left get_climate_data after the
\* one request, and neither extract nor parse ran.
C19_Witness ==
    /\ pc = "raised"
    /\ steps = <<"fetch">>
    /\ requests = 1
    /\ response.kind = "ConnectionError"
    /\ exc = Exception("RequestException",
                       <<"Error fetching CLI report for ", "KNYC", ": ",
                         "Connection failed">>)
    /\ report = <<>>
    /\ ~cli_data.some

-----------------------------------------------------------------------------
(* C21 *)

\* What the producer has been handed when every beat went out once, in list
\* order, on the given topic
EveryBeatSent == [i \in 1..Len(beats) |-> [topic |-> topic, value |-> beats[i]]]

\* C21: publish_beats_to_kafka ends with the producer closed; unless a send
\* failed in transport it ends by returning, every beat having been sent once
\* in list order to the given topic, one flush having followed the last send
\* and the count being the number of beats; after a failed send nothing more
\* is sent.
C21_PublishesEveryBeat ==
    /\ pc \in {"published", "raised"} => producer.closed
    /\ pc = "raised" => error = "KafkaError" /\ producer.flushes = <<>>
    /\ pc = "published" =>
         /\ producer.sent = EveryBeatSent
         /\ producer.flushes = <<Len(beats)>>
         /\ count = Len(beats)

-----------------------------------------------------------------------------
(* C22 *)

BeatOrder ==
    <<<<"temperature", "max">>, <<"temperature", "min">>, <<"temperature", "average">>,
      <<"precipitation", "total">>, <<"humidity", "average">>, <<"wind_speed", "max">>>>

BeatKind(b) == <<b.measurement_type, b.observation_type>>

\* C22: the list format_kafka_beats returns holds only the six kinds of
\* observation, and a kind that comes earlier in the order temperature max,
\* temperature min, temperature average, precipitation total, humidity
\* average, wind max speed comes earlier in the list; no kind is there twice.
C22_FixedOrder ==
    pc = "formatted" =>
        /\ \A i \in 1..Len(beats) : \E k \in 1..6 : BeatOrder[k] = BeatKind(beats[i])
        /\ \A i, j \in 1..Len(beats) :
              i < j => \E k, l \in 1..6 : /\ k < l
                                         /\ BeatOrder[k] = BeatKind(beats[i])
                                         /\ BeatOrder[l] = BeatKind(beats[j])

\* A list in which humidity is skipped between precipitation and wind
C22_Witness ==
    /\ pc = "formatted"
    /\ [i \in 1..Len(beats) |-> BeatKind(beats[i])] =
         <<BeatOrder[1], BeatOrder[2], BeatOrder[3], BeatOrder[4], BeatOrder[6]>>

-----------------------------------------------------------------------------
(* C23 *)

\* The fields the ValidationError of the constructor call reports
Reported == CLIData(kwargs).errors

TemperatureFieldNames == <<"temperature_max", "temperature_min", "temperature_avg">>

\* The temperature fields whose argument lies outside -150..150, in the order
\* of declaration
OutOfRangeTemperatures ==
    SelectSeq(TemperatureFieldNames,
              LAMBDA f : kwargs[f].some /\ ~(kwargs[f].v \in -150..150))

-----------------------------------------------------------------------------
(* C24 *)

TemperatureHeaders == {W(HDR_NL), W(HDR_WS)}

SectionHeaders ==
    TemperatureHeaders \cup
    {W("PRECIPITATION (IN)"), W("SNOWFALL (IN)"), W("WIND (MPH)"),
     W("RELATIVE HUMIDITY (PERCENT)")}

\* Position i of the bulletin lies in a section headed by one of hdrs: the
\* last section header at or before i is one of them.
InSection(i, hdrs) ==
    \E h \in 1..i :
        /\ report[h] \in hdrs
        /\ \A k \in (h + 1)..i : report[k] \notin SectionHeaders

\* The number that follows label at some place of a section headed by hdrs
OwnValue(hdrs, label, v) ==
    \E i \in 1..(Len(report) - 1) :
        /\ InSection(i + 1, hdrs)
        /\ report[i] = W(label)
        /\ report[i + 1].t \in {"int", "dec"}
        /\ v \in {report[i + 1].n, IntPrefix(report[i + 1])}

\* The YESTERDAY lines of the precipitation section that carry a decimal
OwnPrecipitation ==
    {i \in 1..(Len(report) - 1) :
        /\ InSection(i + 1, {W("PRECIPITATION (IN)")})
        /\ report[i] = W("YESTERDAY")
        /\ report[i + 1].t = "dec"}

\* C24: in every returned record each value was read in its own section:
\* the three temperatures in the temperature section, humidity in the
\* relative-humidity section, wind in the wind section, and precipitation is
\* the first decimal after a YESTERDAY label of the precipitation section;
\* when the precipitation section carries none, precipitation keeps its
\* default 0.0 and holds no value of a later section.
C24_OwnSection ==
    Returned =>
        /\ OwnValue(TemperatureHeaders, "MAXIMUM", cli_data.v.temperature_max)
        /\ OwnValue(TemperatureHeaders, "MINIMUM", cli_data.v.temperature_min)
        /\ OwnValue(TemperatureHeaders, "AVERAGE", cli_data.v.temperature_avg)
        /\ cli_data.v.precipitation_yesterday.v =
             IF OwnPrecipitation = {} THEN 0
             ELSE report[Min(OwnPrecipitation) + 1].n
        /\ cli_data.v.humidity_avg.some =>
             OwnValue({W("RELATIVE HUMIDITY (PERCENT)")}, "AVERAGE",
                      cli_data.v.humidity_avg.v)
        /\ cli_data.v.wind_highest_speed.some =>
             OwnValue({W("WIND (MPH)")}, "HIGHEST WIND SPEED",
                      cli_data.v.wind_highest_speed.v)

-----------------------------------------------------------------------------
(* C25 *)

\* The header, in the spelling hdr, is directly followed by the marker
Follows(hdr, marker) ==
    \E i \in 1..(Len(report) - 1) : report[i] = W(hdr) /\ report[i + 1] = W(marker)

\* No YESTERDAY stands anywhere after a temperature header
NoYesterdayAfterHeader ==
    ~\E i \in 1..Len(report) : \E j \in (i + 1)..Len(report) :
        report[i] \in {W(HDR_NL), W(HDR_WS)} /\ report[j] = W("YESTERDAY")

\* C25 (as stated): a text in which the header is followed, across a line
\* break and any white space, by YESTERDAY is accepted by rule 1, with or
\* without a VALID TODAY AS OF line; a text in which the header is followed
\* across a line break by TODAY and no YESTERDAY comes after the header is
\* rejected.
C25_ToleratesLineBreaks ==
    pc = "classified" =>
        /\ (Follows(HDR_NL, "YESTERDAY") \/ Follows(HDR_WS, "YESTERDAY")) =>
              rule = 1 /\ valid
        /\ ((Follows(HDR_NL, "TODAY") \/ Follows(HDR_WS, "TODAY"))
             /\ NoYesterdayAfterHeader) => ~valid

\* C25 (amended): rule 1 is the literal header, one line break and one
\* space, then YESTERDAY; a text holding it is accepted by rule 1, with or
\* without a VALID TODAY AS OF line.  A text in which other white space
\* separates header and YESTERDAY, and which holds neither literal, is not
\* decided by rule 1: it is rejected by rule 3 when it holds VALID TODAY AS
\* OF.  A text in which the header is followed by TODAY, and no YESTERDAY
\* comes after a header, is rejected by rule 2, 3 or 4.
C25_LiteralLineBreak ==
    pc = "classified" =>
        /\ Follows(HDR_NL, "YESTERDAY") => rule = 1 /\ valid
        /\ (Follows(HDR_WS, "YESTERDAY") /\ ~Follows(HDR_NL, "YESTERDAY")) =>
              /\ rule # 1
              /\ (~Follows(HDR_NL, "TODAY")
                   /\ \E i \in 1..Len(report) : report[i] = W("VALID TODAY AS OF"))
                  => rule = 3 /\ ~valid
        /\ ((Follows(HDR_NL, "TODAY") \/ Follows(HDR_WS, "TODAY"))
             /\ NoYesterdayAfterHeader) => rule \in {2, 3, 4} /\ ~valid

\* The literal of rule 1 together with a validity line
C25_Witness ==
    /\ pc = "classified"
    /\ report = <<W(HDR_NL), W("YESTERDAY"), W("VALID TODAY AS OF")>>
    /\ rule = 1
    /\ valid

-----------------------------------------------------------------------------
(* C26 *)

\* t reads H:MM <meridiem> for the clock value hhmm: the hour hhmm div 100
\* without padding, a colon, the minute hhmm mod 100 in two digits, a space
\* and the meridiem
ReadsClock(t, hhmm, meridiem) ==
    LET colon == Len(t) - 5
    IN  /\ colon >= 2
        /\ t[colon] = ":"
        /\ \A i \in (1..(colon - 1)) \cup {colon + 1, colon + 2} : t[i] \in DigitChars
        /\ (colon > 2 => t[1] # "0")
        /\ Numeral(SubSeq(t, 1, colon - 1)) = hhmm \div 100
        /\ Numeral(SubSeq(t, colon + 1, colon + 2)) = hhmm % 100
        /\ t[colon + 3] = " "
        /\ t[colon + 5] = "M"
        /\ t[colon + 4] = (IF meridiem = "AM" THEN "A" ELSE "P")

\* C26: whenever _parse_temperature returns, with or without a reference
\* date, the clock string of the maximum reads H:MM <meridiem> for the HHMM
\* and meridiem of the MAXIMUM line, and that of the minimum for those of
\* the MINIMUM line.
C26_ClockString ==
    pc = "resolved" =>
        /\ ReadsClock(temp_data.v.max_time, report[5].n, report[6].s)
        /\ ReadsClock(temp_data.v.min_time, report[9].n, report[10].s)

\* 341 PM and 542 AM read without a reference date
C26_Witness ==
    /\ pc = "resolved"
    /\ ~report_date_obj.some
    /\ report[5] = I(341) /\ report[6] = W("PM")
    /\ report[9] = I(542) /\ report[10] = W("AM")
    /\ temp_data.v.max_time = Clock_341PM
    /\ temp_data.v.min_time = Clock_542AM

-----------------------------------------------------------------------------
(* C27 *)

\* The section headed by hdr holds the label followed by a number
OwnLabel(hdr, label) ==
    \E i \in 1..(Len(report) - 1) :
        /\ InSection(i + 1, {W(hdr)})
        /\ report[i] = W(label)
        /\ report[i + 1].t \in {"int", "dec"}

HumiditySectionComplete ==
    /\ OwnLabel("RELATIVE HUMIDITY (PERCENT)", "HIGHEST")
    /\ OwnLabel("RELATIVE HUMIDITY (PERCENT)", "LOWEST")
    /\ OwnLabel("RELATIVE HUMIDITY (PERCENT)", "AVERAGE")

WindSectionComplete ==
    /\ OwnLabel("WIND (MPH)", "HIGHEST WIND SPEED")
    /\ OwnLabel("WIND (MPH)", "AVERAGE WIND SPEED")

\* C27: in every returned record the three humidity fields are all present
\* or all absent and so are the three wind fields; humidity is present
\* exactly when the humidity section of the bulletin is complete and wind
\* exactly when the wind section is, whatever the other sections hold.
C27_AllOrNone ==
    Returned =>
        /\ cli_data.v.humidity_highest.some = cli_data.v.humidity_avg.some
        /\ cli_data.v.humidity_lowest.some = cli_data.v.humidity_avg.some
        /\ cli_data.v.wind_highest_direction.some = cli_data.v.wind_highest_speed.some
        /\ cli_data.v.wind_avg_speed.some = cli_data.v.wind_highest_speed.some
        /\ cli_data.v.humidity_avg.some = HumiditySectionComplete
        /\ cli_data.v.wind_highest_speed.some = WindSectionComplete

\* Humidity present, wind and precipitation not in the text
C27_Witness ==
    /\ pc = "parsed"
    /\ cli_data.v.humidity_highest = Some(55)
    /\ cli_data.v.humidity_lowest = Some(15)
    /\ cli_data.v.humidity_avg = Some(35)
    /\ ~cli_data.v.wind_highest_speed.some
    /\ ~cli_data.v.wind_highest_direction.some
    /\ ~cli_data.v.wind_avg_speed.some
    /\ \A i \in 1..Len(report) : report[i] # W("PRECIPITATION (IN)")

-----------------------------------------------------------------------------
(* C28 *)

\* The unit of a measurement kind
UnitOf(measurement_type) ==
    CASE measurement_type = "temperature" -> "F"
      [] measurement_type = "precipitation" -> "IN"
      [] measurement_type = "humidity" -> "%"
      [] measurement_type = "wind_speed" -> "MPH"
      [] OTHER -> ""

\* The field of the record an observation of kind k reports; k is one of
\* BeatOrder
FieldOf(k) ==
    CASE k = BeatOrder[1] -> cli_data.v.temperature_max
      [] k = BeatOrder[2] -> cli_data.v.temperature_min
      [] k = BeatOrder[3] -> cli_data.v.temperature_avg
      [] k = BeatOrder[4] -> cli_data.v.precipitation_yesterday.v
      [] k = BeatOrder[5] -> cli_data.v.humidity_avg.v
      [] OTHER -> cli_data.v.wind_highest_speed.v

\* Every observation names the record's station and the service CLI, holds
\* the value of its field and the unit of its kind
ObservationsMatchRecord ==
    pc = "formatted" =>
        \A i \in 1..Len(beats) :
            /\ beats[i].station_id = cli_data.v.station_id
            /\ beats[i].station_id = station_id
            /\ beats[i].service = "CLI"
            /\ beats[i].value = FieldOf(BeatKind(beats[i]))
            /\ beats[i].unit = UnitOf(beats[i].measurement_type)
            /\ beats[i].unit # ""

\* C28: every observation format_kafka_beats returns carries the station of
\* the record and the service CLI, the value of the record field of its kind
\* and the unit F, IN, % or MPH of its measurement kind, and the call leaves
\* the record as it was.
C28_ObservationsOfRecord ==
    /\ []ObservationsMatchRecord
    /\ [][pc = "parsed" => cli_data' = cli_data]_vars

\* The six observations of a record of station KLGA
C28_Witness ==
    /\ pc = "formatted"
    /\ station_id # "KNYC"
    /\ Len(beats) = 6
    /\ beats[4].value = 25 /\ beats[4].unit = "IN"
    /\ beats[5].value = 35 /\ beats[5].unit = "%"
    /\ beats[6].value = 17 /\ beats[6].unit = "MPH"

-----------------------------------------------------------------------------
(* C29 *)

\* Calls for the same location key returned the same URL
SameUrlForSameKey ==
    \A i, j \in 1..Len(steps) :
        steps[i].location_key = steps[j].location_key =>
            steps[i].raised = steps[j].raised /\ steps[i].url = steps[j].url

\* C29: no call of build_url changes the scraper's configuration: the
\* default parameters and every location's entry hold after the call what
\* they held before it; and the calls made for one location key all return
\* the same URL.
C29_ConfigurationUnchanged ==
    /\ [][cli_config' = cli_config]_vars
    /\ []SameUrlForSameKey

-----------------------------------------------------------------------------
(* C30 *)

\* The hours at which the job should have run: every 10:00 UTC after the
\* call of start() that the loop has been through
DueHours ==
    {t \in (scheduler.since + 1)..(scheduler.now - 1) : t % 24 = 10}

\* C30: once started the scheduler never leaves its loop, whatever the
\* outcome of a run, and the job has run exactly once at every 10:00 UTC
\* that has passed since.
C30_RunsEveryDay ==
    scheduler.started =>
        /\ ~scheduler.exited
        /\ \A t \in DueHours :
              Cardinality({i \in 1..Len(scheduler.runs) : scheduler.runs[i].at = t}) = 1

====
